---- MODULE Spec2Model ----
(***************************************************************************)
(* Model of the IPC bridge of src-tauri/src/ipc.rs: the outbound path      *)
(* (emit / request / send_to_node / set_stdin / flush_message_queue), the  *)
(* correlation table (pending_requests), the stdout listener thread and    *)
(* the timeout checker thread; and of the process manager of               *)
(* src-tauri/src/process.rs: start_node_backend, the crash monitor threads *)
(* of restart_on_crash and shutdown_gracefully.  Every Mutex is a lock     *)
(* with an owner; a block of code that holds exactly one lock from         *)
(* acquisition to release is one step, and a thread that acquires a second *)
(* lock while it holds a first one takes one step per acquisition.         *)
(***************************************************************************)
EXTENDS Integers, Sequences, FiniteSets, TLC

(* ---------------------------- bounds ----------------------------------- *)
MaxCalls == 2      \* emit / request / queue_message calls in one run
MaxReqs == 2       \* of which request / request_with_timeout calls
MaxChan == 2       \* set_stdin calls in one run (channels 1..MaxChan)
MaxLines == 2      \* lines the stdout listener reads in one run
MaxTime == 1       \* seconds of the monotonic clock that are enumerated
MaxWall == 1       \* readings of the system clock that are enumerated
MaxHandlers == 2   \* handlers registered with on()
MaxSecs == 5       \* seconds that pass one at a time (SecondPasses)
MaxSpawns == 3     \* child processes spawned in one run (pids 1..MaxSpawns)

(* ------------------------ program constants ---------------------------- *)
DEFAULT_REQUEST_TIMEOUT_SECS == 30
SweepIntervalSecs == 1

(* ------------------------------ threads -------------------------------- *)
Callers == {"t1", "t2"}
NoThread == "none"
Owner == "owner"             \* the thread that owns the ProcessManager
Monitors == {"m1", "m2"}     \* threads spawned by restart_on_crash
Locks == {"stdin", "pending_requests", "event_handlers", "message_queue"}

(* Option<T>: None is the empty sequence, Some(x) the one-element one.     *)
None == <<>>
Some(x) == <<x>>
IsSome(o) == o # None
Unwrap(o) == o[1]

(* Result<Value, String> as passed to a completion callback.               *)
OkResult(v) == [ok |-> TRUE, val |-> v, err |-> ""]
ErrResult(e, v) == [ok |-> FALSE, val |-> v, err |-> e]

(* ----------------------------- IPCMessage ------------------------------ *)
EventMsg(event, payload) ==
    [id |-> None, msg_type |-> "event", event |-> event,
     payload |-> payload, error |-> None]

RequestMsg(id, event, payload) ==
    [id |-> Some(id), msg_type |-> "request", event |-> event,
     payload |-> payload, error |-> None]

ResponseMsg(id, event, payload) ==
    [id |-> Some(id), msg_type |-> "response", event |-> event,
     payload |-> payload, error |-> None]

ErrorResponseMsg(id, event, error) ==
    [id |-> Some(id), msg_type |-> "response", event |-> event,
     payload |-> 0, error |-> Some(error)]

NullMsg == EventMsg("", 0)

(* ------------------------------- JSON ---------------------------------- *)
(* A JSON value, or the absence of a member from an object.  The string of *)
(* an id is "req_" and a clock reading; s holds other strings and n the    *)
(* number.                                                                 *)
JNull == [t |-> "null", s |-> "", n |-> 0]
JAbsent == [t |-> "absent", s |-> "", n |-> 0]
JString(x) == [t |-> "string", s |-> x, n |-> 0]
JIdString(id) == [t |-> "string", s |-> "req_", n |-> id]
JNumber(k) == [t |-> "number", s |-> "", n |-> k]

ValueToJsonSkipsNull(v) == IF v = 0 THEN JAbsent ELSE JNumber(v)

(* serde_json::Value as a member: payload 0 stands for Value::Null.        *)
ValueToJson(v) == IF v = 0 THEN JNull ELSE JNumber(v)
JsonToValue(j) == IF j.t = "number" THEN j.n ELSE 0

MsgTypeNames == {"event", "request", "response"}

(* #[derive(Serialize)] on IPCMessage: every field is written, None as     *)
(* null, the message type as its lowercase name.                           *)
Serialize(msg) ==
    [id |-> IF IsSome(msg.id) THEN JIdString(Unwrap(msg.id)) ELSE JNull,
     msg_type |-> JString(msg.msg_type),
     event |-> JString(msg.event),
     payload |-> ValueToJson(msg.payload),
     error |-> IF IsSome(msg.error) THEN JString(Unwrap(msg.error)) ELSE JNull]

DeserializeAnything(o) ==
    [ok |-> TRUE,
     msg |-> [id |-> IF o.id.t = "string" THEN Some(o.id.n) ELSE None,
              msg_type |-> o.msg_type.s,
              event |-> o.event.s,
              payload |-> JsonToValue(o.payload),
              error |-> IF o.error.t = "string" THEN Some(o.error.s) ELSE None]]

(* #[derive(Deserialize)] on IPCMessage: an Option field takes null or a   *)
(* missing member as None and otherwise wants a string; msg_type must be   *)
(* one of the three lowercase names; event must be a string; payload must  *)
(* be present and may be any value.                                        *)
Deserialize(o) ==
    IF /\ o.id.t \in {"null", "absent", "string"}
       /\ o.msg_type.t = "string" /\ o.msg_type.s \in MsgTypeNames
       /\ o.event.t = "string"
       /\ o.payload.t # "absent"
       /\ o.error.t \in {"null", "absent", "string"}
    THEN DeserializeAnything(o)
    ELSE [ok |-> FALSE, msg |-> NullMsg]

(* A line of text: a JSON object (obj), text that is not JSON, or nothing  *)
(* but whitespace; nl counts the trailing newline characters.              *)
JsonLine(o, nl) == [kind |-> "json", obj |-> o, nl |-> nl]
GarbageLine == [kind |-> "garbage", obj |-> Serialize(NullMsg), nl |-> 1]
BlankLine == [kind |-> "blank", obj |-> Serialize(NullMsg), nl |-> 1]

(* serde_json::to_string and format!("{}\n", s)                            *)
encode_message_for_stdin(msg) == [ok |-> TRUE, line |-> JsonLine(Serialize(msg), 1)]

parse_stdin_message_lenient(raw) ==
    IF raw.kind = "blank" THEN [ok |-> FALSE, msg |-> NullMsg, err |-> "Empty message"]
    ELSE [ok |-> TRUE, msg |-> DeserializeAnything(raw.obj).msg, err |-> ""]

(* trim, the test for an empty line, and serde_json::from_str              *)
parse_stdin_message(raw) ==
    IF raw.kind = "blank" THEN [ok |-> FALSE, msg |-> NullMsg, err |-> "Empty message"]
    ELSE IF raw.kind = "garbage" \/ ~Deserialize(raw.obj).ok
         THEN [ok |-> FALSE, msg |-> NullMsg, err |-> "Failed to parse message"]
         ELSE [ok |-> TRUE, msg |-> Deserialize(raw.obj).msg, err |-> ""]

(* generate_request_id: "req_" followed by the system clock reading.       *)
generate_request_id(clock) == clock

(* ------------------------------ state ---------------------------------- *)
VARIABLES
    stdin,               \* Option<ChildStdin>: None or Some(channel number)
    pending_requests,    \* id -> None, or Some([event, callback, created_at, timeout])
    event_handlers,      \* event name -> sequence of handler numbers
    message_queue,       \* VecDeque<IPCMessage>
    request_timeout_secs,
    holder,              \* lock -> thread that holds it, or NoThread
    pc, cur,             \* caller threads: position, message being sent
    ret,                 \* the last call that returned: thread, op, value
    lpc, lmsg, nlines,   \* stdout listener thread
    spc, wake, swept,    \* timeout checker thread; swept: it has scanned once
    now, wall,           \* monotonic clock (s), system clock reading
    ncalls, nattach,     \* calls made so far
    written,             \* what each channel received, in order
    fired,               \* callback number -> results it was invoked with
    registered,          \* callbacks inserted into pending_requests
    cancelled,           \* callbacks whose cancel_request returned true
    handled, hooked,     \* number of handler / on_message invocations
    child,               \* ProcessManager.child: None or Some(pid)
    restart_attempts,    \* ProcessManager.restart_attempts
    last_restart,        \* ProcessManager.last_restart: None or Some(second)
    child_lock,          \* the thread that holds the child Mutex, or NoThread
    procs,               \* pid -> "unborn", "running", "exited_ok", "exited_fail"
    nspawn,              \* processes spawned so far
    opc, onew, osince,   \* owner thread: position, process in hand, start of wait
    mpc, mnew, mwake,    \* crash monitor threads: position, new process, wake-up
    codec,               \* a message put through the codec: stage, msg, line, res
    timed_out,           \* timeout checker: timed_out_ids of this pass not yet handled
    hnext,               \* listener: handlers of the current message called so far
    lcall, scall         \* bridge method a callback running on the listener /
                         \* timeout checker thread has called, NoCall when none

vars == <<stdin, pending_requests, event_handlers, message_queue,
          request_timeout_secs, holder, pc, cur, ret, lpc, lmsg, nlines,
          spc, wake, swept, now, wall, ncalls, nattach, written, fired,
          registered, cancelled, handled, hooked,
          child, restart_attempts, last_restart, child_lock, procs, nspawn,
          opc, onew, osince, mpc, mnew, mwake, codec,
          timed_out, hnext, lcall, scall>>

bridgeVars == <<stdin, pending_requests, event_handlers, message_queue,
                request_timeout_secs>>
listenerVars == <<lpc, lmsg, nlines, handled, hooked>>
sweeperVars == <<spc, wake, swept>>
clockVars == <<now, wall>>
managerVars == <<child, restart_attempts, last_restart>>
ownerVars == <<opc, onew, osince>>
monitorVars == <<mpc, mnew, mwake>>
supVars == <<managerVars, child_lock, procs, nspawn, ownerVars, monitorVars>>
callbackVars == <<timed_out, hnext, lcall, scall>>

EventNames == {"get_data", "notify"}
CustomTimeouts == {1}
Times == (0..MaxTime) \cup {DEFAULT_REQUEST_TIMEOUT_SECS + 1}
Ids == 0..MaxWall

NoRet == [op |-> "", ok |-> TRUE, val |-> 0]
Ret(t, op, ok, val) == [op |-> op, ok |-> ok, val |-> val]
NoCur == [msg |-> NullMsg, post |-> FALSE, timeout |-> 0]

(* No bridge method called from a callback.                                *)
NoCall == [op |-> "", msg |-> NullMsg]

Pids == 1..MaxSpawns

NoParse == [ok |-> FALSE, msg |-> NullMsg, err |-> ""]

(* A message and a line in the hands of a caller of the codec functions.   *)
Codec(stage, msg, own, line, res) ==
    [stage |-> stage, msg |-> msg, own |-> own, line |-> line, res |-> res]

NoCodec == Codec("off", NullMsg, FALSE, BlankLine, NoParse)

(* IPCBridge::new and ProcessManager::new                                  *)
InitState ==
    /\ stdin = None
    /\ pending_requests = [i \in Ids |-> None]
    /\ event_handlers = [e \in EventNames |-> <<>>]
    /\ message_queue = <<>>
    /\ request_timeout_secs = DEFAULT_REQUEST_TIMEOUT_SECS
    /\ holder = [l \in Locks |-> NoThread]
    /\ pc = [t \in Callers |-> "idle"]
    /\ cur = [t \in Callers |-> NoCur]
    /\ ret = NoRet
    /\ lpc = "off" /\ lmsg = NullMsg /\ nlines = 0
    /\ spc = "off" /\ wake = 0 /\ swept = FALSE
    /\ now = 0 /\ wall = 0
    /\ ncalls = 0 /\ nattach = 0
    /\ written = <<>>
    /\ fired = [c \in 1..MaxCalls |-> <<>>]
    /\ registered = {}
    /\ cancelled = {}
    /\ handled = 0 /\ hooked = 0
    /\ child = None
    /\ restart_attempts = 0
    /\ last_restart = None
    /\ child_lock = NoThread
    /\ procs = [p \in Pids |-> "unborn"]
    /\ nspawn = 0
    /\ opc = "idle" /\ onew = 0 /\ osince = 0
    /\ mpc = [m \in Monitors |-> "off"]
    /\ mnew = [m \in Monitors |-> 0]
    /\ mwake = [m \in Monitors |-> 0]
    /\ timed_out = {}
    /\ hnext = 0
    /\ lcall = NoCall /\ scall = NoCall

Init == InitState /\ codec = NoCodec

Free(l) == holder[l] = NoThread

(* ------------------------- HashMap / VecDeque -------------------------- *)
MapContains(m, id) == id \in DOMAIN m /\ IsSome(m[id])
MapInsert(m, id, v) == [m EXCEPT ![id] = Some(v)]
MapRemoveKeeps(m, id) == m
MapRemove(m, id) == IF id \in DOMAIN m THEN [m EXCEPT ![id] = None] ELSE m
MapKeys(m) == {id \in DOMAIN m : IsSome(m[id])}
MapLen(m) == Cardinality(MapKeys(m))

PushFront(q, m) == <<m>> \o q
PushBackAtFront(q, m) == PushFront(q, m)
PushBack(q, m) == Append(q, m)

pending_request_count == MapLen(pending_requests)
queue_size == Len(message_queue)

(* One entry of the log of write_all calls: the channel, the line, whether  *)
(* the channel took it (ok), the code path that wrote it, and whether the  *)
(* call that produced the message began after a channel was installed.     *)
Written(ch, line, ok, via, post) ==
    [ch |-> ch, line |-> line, ok |-> ok, via |-> via, post |-> post]

(* ------------------------------- emit ---------------------------------- *)
(* emit builds the event message and enters send_to_node.                  *)
Emit(t) ==
    /\ pc[t] = "idle"
    /\ ncalls < MaxCalls
    /\ ncalls' = ncalls + 1
    /\ cur' = [cur EXCEPT ![t] = [msg |-> EventMsg("notify", ncalls + 1),
                                  post |-> IsSome(stdin), timeout |-> 0]]
    /\ pc' = [pc EXCEPT ![t] = "send"]
    /\ UNCHANGED <<codec, supVars, callbackVars, bridgeVars, holder, ret, listenerVars, sweeperVars, clockVars,
                   nattach, written, fired, registered, cancelled>>

(* ------------------------------ request -------------------------------- *)
(* First half of request / request_with_timeout: the id is generated from  *)
(* the system clock and the request message is built.                      *)
InRequest == {t \in Callers : pc[t] = "req_insert"}

RequestBegin(t, timeout) ==
    /\ pc[t] = "idle"
    /\ ncalls < MaxCalls
    /\ Cardinality(registered) + Cardinality(InRequest) < MaxReqs
    /\ ncalls' = ncalls + 1
    /\ cur' = [cur EXCEPT ![t] =
                 [msg |-> RequestMsg(generate_request_id(wall), "get_data", ncalls + 1),
                  post |-> IsSome(stdin), timeout |-> timeout]]
    /\ pc' = [pc EXCEPT ![t] = "req_insert"]
    /\ UNCHANGED <<codec, supVars, callbackVars, bridgeVars, holder, ret, listenerVars, sweeperVars, clockVars,
                   nattach, written, fired, registered, cancelled>>

Request(t) == RequestBegin(t, request_timeout_secs)

RequestWithTimeout(t) == \E secs \in CustomTimeouts : RequestBegin(t, secs)

(* The PendingRequest is stored under the pending_requests lock; the       *)
(* callback is identified by the number of the call that passed it.        *)
NewPending(c) ==
    [event |-> c.msg.event, callback |-> c.msg.payload,
     created_at |-> now, timeout |-> c.timeout]

RequestInsertSkips(t) ==
    /\ pc[t] = "req_insert"
    /\ Free("pending_requests")
    /\ pc' = [pc EXCEPT ![t] = "send"]
    /\ UNCHANGED <<codec, supVars, callbackVars, bridgeVars, holder, cur, ret, listenerVars,
                   sweeperVars, clockVars, ncalls, nattach, written, fired,
                   registered, cancelled>>

RequestInsert(t) ==
    /\ pc[t] = "req_insert"
    /\ Free("pending_requests")
    /\ pending_requests' = MapInsert(pending_requests, Unwrap(cur[t].msg.id),
                                     NewPending(cur[t]))
    /\ registered' = registered \cup {cur[t].msg.payload}
    /\ pc' = [pc EXCEPT ![t] = "send"]
    /\ UNCHANGED <<codec, supVars, callbackVars, stdin, event_handlers, message_queue, request_timeout_secs,
                   holder, cur, ret, listenerVars, sweeperVars, clockVars,
                   ncalls, nattach, written, fired, cancelled>>

(* ---------------------------- send_to_node ----------------------------- *)
(* The op whose send_to_node is running: a request returns its id.         *)
SendOp(c) == IF c.msg.msg_type = "request" THEN "request" ELSE "emit"
SendVal(c) == IF c.msg.msg_type = "request" THEN Unwrap(c.msg.id) ELSE 0

WriteOutcomes == {"ok", "write_failed", "flush_failed"}

SendDirectUnregisters(t) ==
    /\ pc[t] = "send"
    /\ Free("stdin")
    /\ IsSome(stdin)
    /\ \E w \in WriteOutcomes :
         /\ written' = Append(written,
                              Written(Unwrap(stdin),
                                      encode_message_for_stdin(cur[t].msg).line,
                                      w # "write_failed", "direct", cur[t].post))
         /\ ret' = Ret(t, SendOp(cur[t]), w = "ok", SendVal(cur[t]))
         /\ pending_requests' =
              IF w # "ok" /\ cur[t].msg.msg_type = "request"
              THEN MapRemove(pending_requests, Unwrap(cur[t].msg.id))
              ELSE pending_requests
    /\ pc' = [pc EXCEPT ![t] = "idle"]
    /\ cur' = [cur EXCEPT ![t] = NoCur]
    /\ UNCHANGED <<codec, supVars, callbackVars, stdin, event_handlers, message_queue, request_timeout_secs,
                   holder, listenerVars, sweeperVars, clockVars,
                   ncalls, nattach, fired, registered, cancelled>>

SendDirectDrains(t) ==
    /\ pc[t] = "send"
    /\ Free("stdin")
    /\ Free("message_queue")
    /\ IsSome(stdin)
    /\ \E w \in WriteOutcomes :
         /\ written' = Append(written \o
                                [i \in 1..Len(message_queue) |->
                                   Written(Unwrap(stdin),
                                           encode_message_for_stdin(message_queue[i]).line,
                                           TRUE, "flush", FALSE)],
                              Written(Unwrap(stdin),
                                      encode_message_for_stdin(cur[t].msg).line,
                                      w # "write_failed", "direct", cur[t].post))
         /\ ret' = Ret(t, SendOp(cur[t]), w = "ok", SendVal(cur[t]))
    /\ message_queue' = <<>>
    /\ pc' = [pc EXCEPT ![t] = "idle"]
    /\ cur' = [cur EXCEPT ![t] = NoCur]
    /\ UNCHANGED <<codec, supVars, callbackVars, stdin, pending_requests, event_handlers,
                   request_timeout_secs, holder, listenerVars, sweeperVars,
                   clockVars, ncalls, nattach, fired, registered, cancelled>>

(* Channel attached: write_all and flush under the stdin lock.  A failed   *)
(* write_all is logged with ok = FALSE, a failed flush comes after the     *)
(* line was written; both return Err to the caller.                        *)
SendDirect(t) ==
    /\ pc[t] = "send"
    /\ Free("stdin")
    /\ IsSome(stdin)
    /\ \E w \in WriteOutcomes :
         /\ written' = Append(written,
                              Written(Unwrap(stdin),
                                      encode_message_for_stdin(cur[t].msg).line,
                                      w # "write_failed", "direct", cur[t].post))
         /\ ret' = Ret(t, SendOp(cur[t]), w = "ok", SendVal(cur[t]))
    /\ pc' = [pc EXCEPT ![t] = "idle"]
    /\ cur' = [cur EXCEPT ![t] = NoCur]
    /\ UNCHANGED <<codec, supVars, callbackVars, bridgeVars, holder, listenerVars, sweeperVars, clockVars,
                   ncalls, nattach, fired, registered, cancelled>>

(* No channel: the stdin lock stays held while the queue lock is taken.    *)
SendNoStdin(t) ==
    /\ pc[t] = "send"
    /\ Free("stdin")
    /\ ~IsSome(stdin)
    /\ holder' = [holder EXCEPT !["stdin"] = t]
    /\ pc' = [pc EXCEPT ![t] = "send_queue"]
    /\ UNCHANGED <<codec, supVars, callbackVars, bridgeVars, cur, ret, listenerVars, sweeperVars, clockVars,
                   ncalls, nattach, written, fired, registered, cancelled>>

SendQueueNotAvailable(t) ==
    /\ pc[t] = "send_queue"
    /\ holder' = [holder EXCEPT !["stdin"] = NoThread]
    /\ ret' = Ret(t, SendOp(cur[t]), FALSE, SendVal(cur[t]))
    /\ pc' = [pc EXCEPT ![t] = "idle"]
    /\ cur' = [cur EXCEPT ![t] = NoCur]
    /\ UNCHANGED <<codec, supVars, callbackVars, bridgeVars, listenerVars, sweeperVars, clockVars,
                   ncalls, nattach, written, fired, registered, cancelled>>

SendQueue(t) ==
    /\ pc[t] = "send_queue"
    /\ Free("message_queue")
    /\ message_queue' = PushBack(message_queue, cur[t].msg)
    /\ holder' = [holder EXCEPT !["stdin"] = NoThread]
    /\ ret' = Ret(t, SendOp(cur[t]), TRUE, SendVal(cur[t]))
    /\ pc' = [pc EXCEPT ![t] = "idle"]
    /\ cur' = [cur EXCEPT ![t] = NoCur]
    /\ UNCHANGED <<codec, supVars, callbackVars, stdin, pending_requests, event_handlers, request_timeout_secs,
                   listenerVars, sweeperVars, clockVars,
                   ncalls, nattach, written, fired, registered, cancelled>>

(* ------------------------------ set_stdin ------------------------------ *)
SetStdinUnlocked(t) ==
    /\ pc[t] = "idle"
    /\ nattach < MaxChan
    /\ stdin' = Some(nattach + 1)
    /\ nattach' = nattach + 1
    /\ pc' = [pc EXCEPT ![t] = "flush"]
    /\ UNCHANGED <<codec, supVars, callbackVars, pending_requests, event_handlers, message_queue,
                   request_timeout_secs, holder, cur, ret, listenerVars,
                   sweeperVars, clockVars, ncalls, written, fired,
                   registered, cancelled>>

(* The channel is installed under the stdin lock, which is released before *)
(* flush_message_queue is entered.                                         *)
SetStdin(t) ==
    /\ pc[t] = "idle"
    /\ nattach < MaxChan
    /\ Free("stdin")
    /\ stdin' = Some(nattach + 1)
    /\ nattach' = nattach + 1
    /\ pc' = [pc EXCEPT ![t] = "flush"]
    /\ UNCHANGED <<codec, supVars, callbackVars, pending_requests, event_handlers, message_queue,
                   request_timeout_secs, holder, cur, ret, listenerVars,
                   sweeperVars, clockVars, ncalls, written, fired,
                   registered, cancelled>>

(* flush_message_queue takes the queue lock first ...                      *)
FlushLockQueue(t) ==
    /\ pc[t] = "flush"
    /\ Free("message_queue")
    /\ holder' = [holder EXCEPT !["message_queue"] = t]
    /\ pc' = [pc EXCEPT ![t] = "flush_stdin"]
    /\ UNCHANGED <<codec, supVars, callbackVars, bridgeVars, cur, ret, listenerVars, sweeperVars, clockVars,
                   ncalls, nattach, written, fired, registered, cancelled>>

(* ... and then the stdin lock, and drains with both held.  The loop pops  *)
(* from the front; the first k writes succeed, and if k is less than the   *)
(* queue length the write of message k+1 fails, the message is pushed back *)
(* at the front and the loop ends.                                         *)
DrainLines(q, ch, k) ==
    [i \in 1..(IF k < Len(q) THEN k + 1 ELSE k) |->
       Written(ch, encode_message_for_stdin(q[i]).line, i <= k, "flush", FALSE)]

DrainRestAtBack(q, k) ==
    IF k < Len(q) THEN PushBack(SubSeq(q, k + 2, Len(q)), q[k + 1]) ELSE <<>>

DrainRest(q, k) ==
    IF k < Len(q) THEN PushFront(SubSeq(q, k + 2, Len(q)), q[k + 1]) ELSE <<>>

FlushDrain(t) ==
    /\ pc[t] = "flush_stdin"
    /\ Free("stdin")
    /\ IF IsSome(stdin)
       THEN \E k \in 0..Len(message_queue) :
              /\ written' = written \o DrainLines(message_queue, Unwrap(stdin), k)
              /\ message_queue' = DrainRest(message_queue, k)
              /\ ret' = Ret(t, "set_stdin", k = Len(message_queue), k)
       ELSE /\ UNCHANGED <<written, message_queue>>
            /\ ret' = Ret(t, "set_stdin", TRUE, 0)
    /\ holder' = [holder EXCEPT !["message_queue"] = NoThread]
    /\ pc' = [pc EXCEPT ![t] = "idle"]
    /\ UNCHANGED <<codec, supVars, callbackVars, stdin, pending_requests, event_handlers, request_timeout_secs,
                   cur, listenerVars, sweeperVars, clockVars,
                   ncalls, nattach, fired, registered, cancelled>>

(* --------------------- cancel_request / queue_message / on ------------- *)
CancelRequestKeeps(t) ==
    /\ pc[t] = "idle"
    /\ Free("pending_requests")
    /\ \E id \in Ids :
         /\ ret' = Ret(t, "cancel_request", MapContains(pending_requests, id), id)
         /\ cancelled' = IF MapContains(pending_requests, id)
                         THEN cancelled \cup {Unwrap(pending_requests[id]).callback}
                         ELSE cancelled
    /\ UNCHANGED <<codec, supVars, callbackVars, bridgeVars, holder, pc, cur, listenerVars, sweeperVars, clockVars,
                   ncalls, nattach, written, fired, registered>>

CancelRequest(t) ==
    /\ pc[t] = "idle"
    /\ Free("pending_requests")
    /\ \E id \in Ids :
         /\ pending_requests' = MapRemove(pending_requests, id)
         /\ ret' = Ret(t, "cancel_request", MapContains(pending_requests, id), id)
         /\ cancelled' = IF MapContains(pending_requests, id)
                         THEN cancelled \cup {Unwrap(pending_requests[id]).callback}
                         ELSE cancelled
    /\ UNCHANGED <<codec, supVars, callbackVars, stdin, event_handlers, message_queue, request_timeout_secs,
                   holder, pc, cur, listenerVars, sweeperVars, clockVars,
                   ncalls, nattach, written, fired, registered>>

QueueMessage(t) ==
    /\ pc[t] = "idle"
    /\ ncalls < MaxCalls
    /\ Free("message_queue")
    /\ ncalls' = ncalls + 1
    /\ message_queue' = PushBack(message_queue, EventMsg("queued", ncalls + 1))
    /\ ret' = Ret(t, "queue_message", TRUE, 0)
    /\ UNCHANGED <<codec, supVars, callbackVars, stdin, pending_requests, event_handlers, request_timeout_secs,
                   holder, pc, cur, listenerVars, sweeperVars, clockVars,
                   nattach, written, fired, registered, cancelled>>

NumHandlers == Len(event_handlers["get_data"]) + Len(event_handlers["notify"])

On(t) ==
    /\ pc[t] = "idle"
    /\ NumHandlers < MaxHandlers
    /\ Free("event_handlers")
    /\ \E e \in EventNames :
         event_handlers' = [event_handlers EXCEPT
                              ![e] = Append(@, NumHandlers + 1)]
    /\ ret' = Ret(t, "on", TRUE, 0)
    /\ UNCHANGED <<codec, supVars, callbackVars, stdin, pending_requests, message_queue, request_timeout_secs,
                   holder, pc, cur, listenerVars, sweeperVars, clockVars,
                   ncalls, nattach, written, fired, registered, cancelled>>

(* ------------------------ start_stdout_listener ------------------------ *)
StartStdoutListener(t) ==
    /\ pc[t] = "idle"
    /\ lpc = "off"
    /\ lpc' = "read"
    /\ UNCHANGED <<codec, supVars, callbackVars, bridgeVars, holder, pc, cur, ret, lmsg, nlines, handled, hooked,
                   sweeperVars, clockVars, ncalls, nattach, written, fired,
                   registered, cancelled>>

(* The lines the child may print.                                          *)
(* A response carries a payload, and an error or none.                     *)
InboundMsgs ==
    {ResponseMsg(i, "get_data", 7) : i \in Ids}
      \cup {[ResponseMsg(i, "get_data", 7) EXCEPT !.error = Some("boom")] : i \in Ids}
      \cup {EventMsg("notify", 7)}

InboundLines ==
    {encode_message_for_stdin(m).line : m \in InboundMsgs} \cup {GarbageLine, BlankLine}

ResponseResultPayloadFirst(msg) ==
    IF msg.payload # 0 THEN OkResult(msg.payload)
    ELSE ErrResult(Unwrap(msg.error), 0)

(* The result handed to the callback of a matched response.                *)
ResponseResult(msg) ==
    IF IsSome(msg.error) THEN ErrResult(Unwrap(msg.error), 0)
    ELSE OkResult(msg.payload)

Invoke(f, cb, result) == [f EXCEPT ![cb] = Append(@, result)]

IsMatchedResponse(msg) ==
    /\ msg.msg_type = "response"
    /\ IsSome(msg.id)
    /\ MapContains(pending_requests, Unwrap(msg.id))

ListenerDispatchBreaks(msg) ==
    IF IsMatchedResponse(msg)
    THEN /\ pending_requests' = MapRemove(pending_requests, Unwrap(msg.id))
         /\ fired' = Invoke(fired,
                            Unwrap(pending_requests[Unwrap(msg.id)]).callback,
                            ResponseResult(msg))
         /\ lpc' = "read"
    ELSE /\ lpc' = IF msg.msg_type = "response" THEN "stopped" ELSE "handlers"
         /\ UNCHANGED <<pending_requests, fired>>

(* The response branch of the loop body for a decoded message: a response *)
(* whose id is pending is removed and its callback invoked under the       *)
(* pending_requests lock, then `continue`; every other message goes on to  *)
(* the handlers.                                                           *)
ListenerDispatch(msg) ==
    IF IsMatchedResponse(msg)
    THEN /\ pending_requests' = MapRemove(pending_requests, Unwrap(msg.id))
         /\ fired' = Invoke(fired,
                            Unwrap(pending_requests[Unwrap(msg.id)]).callback,
                            ResponseResult(msg))
         /\ lpc' = "read"
    ELSE /\ lpc' = "handlers"
         /\ UNCHANGED <<pending_requests, fired>>

(* One iteration of the reader loop up to the end of the response branch:  *)
(* blank and unparsable lines are skipped.  lmsg is the message decoded in *)
(* this iteration, NullMsg when the line gave none.                        *)
ListenerRead ==
    /\ lpc = "read"
    /\ nlines < MaxLines
    /\ Free("pending_requests")
    /\ nlines' = nlines + 1
    /\ \E line \in InboundLines :
         LET parsed == parse_stdin_message(line)
         IN  IF line.kind = "blank" \/ ~parsed.ok
             THEN /\ lmsg' = NullMsg
                  /\ UNCHANGED <<pending_requests, fired, lpc>>
             ELSE /\ lmsg' = parsed.msg
                  /\ ListenerDispatch(parsed.msg)
    /\ UNCHANGED <<codec, supVars, callbackVars, stdin, event_handlers, message_queue, request_timeout_secs,
                   holder, pc, cur, ret, handled, hooked, sweeperVars, clockVars,
                   ncalls, nattach, written, registered, cancelled>>

HandlerCallsFirstOnly(hs, payload) == IF Len(hs) > 0 THEN 1 ELSE 0

(* Every handler registered for the event name is called with the payload. *)
HandlerCalls(hs, payload) == Len(hs)

ListenerHandlers ==
    /\ lpc = "handlers"
    /\ Free("event_handlers")
    /\ handled' = IF lmsg.event \in DOMAIN event_handlers
                  THEN handled + HandlerCalls(event_handlers[lmsg.event], lmsg.payload)
                  ELSE handled
    /\ lpc' = "hook"
    /\ UNCHANGED <<codec, supVars, callbackVars, bridgeVars, holder, pc, cur, ret, lmsg, nlines, hooked,
                   sweeperVars, clockVars, ncalls, nattach, written, fired,
                   registered, cancelled>>

ListenerHookSkips ==
    /\ lpc = "hook"
    /\ lpc' = "read"
    /\ UNCHANGED <<codec, supVars, callbackVars, bridgeVars, holder, pc, cur, ret, lmsg, nlines, handled, hooked,
                   sweeperVars, clockVars, ncalls, nattach, written, fired,
                   registered, cancelled>>

(* on_message(msg)                                                         *)
ListenerHook ==
    /\ lpc = "hook"
    /\ hooked' = hooked + 1
    /\ lpc' = "read"
    /\ UNCHANGED <<codec, supVars, callbackVars, bridgeVars, holder, pc, cur, ret, lmsg, nlines, handled,
                   sweeperVars, clockVars, ncalls, nattach, written, fired,
                   registered, cancelled>>

(* End of the child's output, or a read error: the loop ends.              *)
ListenerStop ==
    /\ lpc = "read"
    /\ lpc' = "stopped"
    /\ UNCHANGED <<codec, supVars, callbackVars, bridgeVars, holder, pc, cur, ret, lmsg, nlines, handled, hooked,
                   sweeperVars, clockVars, ncalls, nattach, written, fired,
                   registered, cancelled>>

(* ------------------------ start_timeout_checker ------------------------ *)
StartTimeoutChecker(t) ==
    /\ pc[t] = "idle"
    /\ spc = "off"
    /\ spc' = "sleep"
    /\ wake' = now + SweepIntervalSecs
    /\ UNCHANGED <<codec, supVars, callbackVars, bridgeVars, holder, pc, cur, ret, listenerVars, swept, clockVars,
                   ncalls, nattach, written, fired, registered, cancelled>>

Elapsed(created_at) == now - created_at

TimedOutAtDeadline(m) ==
    {id \in MapKeys(m) : Elapsed(Unwrap(m[id]).created_at) >= Unwrap(m[id]).timeout}

TimedOut(m) == {id \in MapKeys(m) : Elapsed(Unwrap(m[id]).created_at) > Unwrap(m[id]).timeout}

RemoveAll(m, ids) == [id \in DOMAIN m |-> IF id \in ids THEN None ELSE m[id]]

TimeoutResult(request) == ErrResult("Request timed out after", request.timeout)

FireTimeouts(f, m, ids) ==
    [c \in DOMAIN f |->
       IF \E id \in ids : Unwrap(m[id]).callback = c
       THEN Append(f[c], TimeoutResult(Unwrap(m[CHOOSE id \in ids : Unwrap(m[id]).callback = c])))
       ELSE f[c]]

(* One iteration of the checker loop after its sleep: under the lock, the  *)
(* ids whose age exceeds their timeout are collected, then each is removed *)
(* and its callback invoked with the timeout error.                        *)
TimeoutCheck ==
    /\ spc = "sleep"
    /\ now >= wake
    /\ Free("pending_requests")
    /\ LET timed_out_ids == TimedOut(pending_requests)
       IN  /\ pending_requests' = RemoveAll(pending_requests, timed_out_ids)
           /\ fired' = FireTimeouts(fired, pending_requests, timed_out_ids)
    /\ wake' = now + SweepIntervalSecs
    /\ swept' = TRUE
    /\ UNCHANGED <<codec, supVars, callbackVars, stdin, event_handlers, message_queue, request_timeout_secs,
                   holder, pc, cur, ret, listenerVars, spc, clockVars,
                   ncalls, nattach, written, registered, cancelled>>

(* ------------- callbacks that call back into the bridge ---------------- *)
(* The listener and the timeout checker step by step, with a completion    *)
(* callback or an event handler as a stretch of the thread's run during    *)
(* which it may call request, cancel_request, pending_request_count or on  *)
(* of the same bridge.  std::sync::Mutex is not re-entrant: lock() by the  *)
(* thread that holds the mutex does not return.                            *)
Listener == "listener"
Sweeper == "sweeper"

BridgeMethods == {"request", "cancel_request", "pending_request_count", "on"}

(* The mutex a method locks first.                                         *)
FirstLock(op) ==
    IF op = "on" THEN "event_handlers"
    ELSE IF op = "send_to_node" THEN "stdin"
    ELSE "pending_requests"

(* A callback may start a call when the bounds leave room for it.          *)
MayCall(op) ==
    /\ op = "request" =>
          /\ ncalls < MaxCalls
          /\ Cardinality(registered) + Cardinality(InRequest) < MaxReqs
    /\ op = "on" => NumHandlers < MaxHandlers

PendingRequestCount(t) ==
    /\ pc[t] = "idle"
    /\ Free("pending_requests")
    /\ ret' = Ret(t, "pending_request_count", TRUE, pending_request_count)
    /\ UNCHANGED <<codec, supVars, callbackVars, bridgeVars, holder, pc, cur, listenerVars,
                   sweeperVars, clockVars, ncalls, nattach, written, fired,
                   registered, cancelled>>

(* The called method runs on the thread th up to the end of its locked     *)
(* section: it takes its lock when no thread holds it.  request goes on to *)
(* send_to_node after the insert.                                          *)
NestedStep(th, call, next) ==
    /\ call.op # ""
    /\ Free(FirstLock(call.op))
    /\ IF call.op = "on" THEN
            /\ NumHandlers < MaxHandlers
            /\ \E e \in EventNames :
                 event_handlers' = [event_handlers EXCEPT
                                      ![e] = Append(@, NumHandlers + 1)]
            /\ ret' = Ret(th, "on", TRUE, 0)
            /\ next = NoCall
            /\ UNCHANGED <<pending_requests, message_queue, ncalls, written,
                           registered, cancelled>>
       ELSE IF call.op = "cancel_request" THEN
            /\ \E id \in Ids :
                 /\ pending_requests' = MapRemove(pending_requests, id)
                 /\ ret' = Ret(th, "cancel_request", MapContains(pending_requests, id), id)
                 /\ cancelled' = IF MapContains(pending_requests, id)
                                 THEN cancelled \cup {Unwrap(pending_requests[id]).callback}
                                 ELSE cancelled
            /\ next = NoCall
            /\ UNCHANGED <<event_handlers, message_queue, ncalls, written, registered>>
       ELSE IF call.op = "pending_request_count" THEN
            /\ ret' = Ret(th, "pending_request_count", TRUE, pending_request_count)
            /\ next = NoCall
            /\ UNCHANGED <<pending_requests, event_handlers, message_queue, ncalls,
                           written, registered, cancelled>>
       ELSE IF call.op = "request" THEN
            /\ ncalls < MaxCalls
            /\ ncalls' = ncalls + 1
            /\ pending_requests' =
                 MapInsert(pending_requests, generate_request_id(wall),
                           [event |-> "get_data", callback |-> ncalls + 1,
                            created_at |-> now, timeout |-> request_timeout_secs])
            /\ registered' = registered \cup {ncalls + 1}
            /\ next = [op |-> "send_to_node",
                       msg |-> RequestMsg(generate_request_id(wall), "get_data",
                                          ncalls + 1)]
            /\ UNCHANGED <<event_handlers, message_queue, ret, written, cancelled>>
       ELSE /\ IF IsSome(stdin)
               THEN /\ \E w \in WriteOutcomes :
                         /\ written' = Append(written,
                                Written(Unwrap(stdin),
                                        encode_message_for_stdin(call.msg).line,
                                        w # "write_failed", "direct", TRUE))
                         /\ ret' = Ret(th, "request", w = "ok", Unwrap(call.msg.id))
                    /\ UNCHANGED message_queue
               ELSE /\ Free("message_queue")
                    /\ message_queue' = PushBack(message_queue, call.msg)
                    /\ ret' = Ret(th, "request", TRUE, Unwrap(call.msg.id))
                    /\ UNCHANGED written
            /\ next = NoCall
            /\ UNCHANGED <<pending_requests, event_handlers, ncalls, registered,
                           cancelled>>

(* A line is read and parsed; blank and unparsable lines are skipped.  A   *)
(* response with an id goes to the table, any other message to the         *)
(* handlers.                                                               *)
ListenerReadLine ==
    /\ lpc = "read"
    /\ nlines < MaxLines
    /\ nlines' = nlines + 1
    /\ \E line \in InboundLines :
         LET parsed == parse_stdin_message(line)
         IN  IF line.kind = "blank" \/ ~parsed.ok
             THEN /\ lmsg' = NullMsg
                  /\ UNCHANGED lpc
             ELSE /\ lmsg' = parsed.msg
                  /\ lpc' = IF parsed.msg.msg_type = "response" /\ IsSome(parsed.msg.id)
                            THEN "lock_requests" ELSE "lock_handlers"
    /\ UNCHANGED <<codec, supVars, callbackVars, bridgeVars, holder, pc, cur, ret,
                   handled, hooked, sweeperVars, clockVars, ncalls, nattach,
                   written, fired, registered, cancelled>>

ListenerLockRequestsUnlocks ==
    /\ lpc = "lock_requests"
    /\ Free("pending_requests")
    /\ IF IsMatchedResponse(lmsg)
       THEN /\ pending_requests' = MapRemove(pending_requests, Unwrap(lmsg.id))
            /\ fired' = Invoke(fired,
                               Unwrap(pending_requests[Unwrap(lmsg.id)]).callback,
                               ResponseResult(lmsg))
            /\ lpc' = "callback"
       ELSE /\ lpc' = "lock_handlers"
            /\ UNCHANGED <<pending_requests, fired>>
    /\ UNCHANGED <<codec, supVars, callbackVars, stdin, event_handlers, message_queue,
                   request_timeout_secs, holder, pc, cur, ret, lmsg, nlines, handled,
                   hooked, sweeperVars, clockVars, ncalls, nattach, written,
                   registered, cancelled>>

(* pending_requests is locked; the entry of a matched response is removed  *)
(* and its callback invoked with the guard `requests` alive.  Without a    *)
(* match the guard is dropped at the end of the block.                     *)
ListenerLockRequests ==
    /\ lpc = "lock_requests"
    /\ Free("pending_requests")
    /\ IF IsMatchedResponse(lmsg)
       THEN /\ pending_requests' = MapRemove(pending_requests, Unwrap(lmsg.id))
            /\ fired' = Invoke(fired,
                               Unwrap(pending_requests[Unwrap(lmsg.id)]).callback,
                               ResponseResult(lmsg))
            /\ holder' = [holder EXCEPT !["pending_requests"] = Listener]
            /\ lpc' = "callback"
       ELSE /\ lpc' = "lock_handlers"
            /\ UNCHANGED <<pending_requests, fired, holder>>
    /\ UNCHANGED <<codec, supVars, callbackVars, stdin, event_handlers, message_queue,
                   request_timeout_secs, pc, cur, ret, lmsg, nlines, handled,
                   hooked, sweeperVars, clockVars, ncalls, nattach, written,
                   registered, cancelled>>

(* The running callback or handler calls a method of the bridge.           *)
ListenerCalls ==
    /\ lpc \in {"callback", "handler"}
    /\ lcall = NoCall
    /\ \E op \in BridgeMethods :
         /\ MayCall(op)
         /\ lcall' = [op |-> op, msg |-> NullMsg]
    /\ UNCHANGED <<codec, supVars, timed_out, hnext, scall, bridgeVars, holder, pc, cur,
                   ret, listenerVars, sweeperVars, clockVars, ncalls, nattach,
                   written, fired, registered, cancelled>>

ListenerNestedStep ==
    /\ lpc \in {"callback", "handler"}
    /\ NestedStep(Listener, lcall, lcall')
    /\ UNCHANGED <<codec, supVars, timed_out, hnext, scall, stdin, request_timeout_secs,
                   holder, pc, cur, listenerVars, sweeperVars, clockVars, nattach,
                   fired>>

(* The callback returns; `continue` ends the iteration and drops the guard. *)
ListenerCallbackReturns ==
    /\ lpc = "callback"
    /\ lcall = NoCall
    /\ holder' = [holder EXCEPT !["pending_requests"] = NoThread]
    /\ lpc' = "read"
    /\ UNCHANGED <<codec, supVars, callbackVars, bridgeVars, pc, cur, ret, lmsg, nlines,
                   handled, hooked, sweeperVars, clockVars, ncalls, nattach,
                   written, fired, registered, cancelled>>

(* event_handlers is locked for the loop over the handlers of the event.   *)
ListenerLockHandlers ==
    /\ lpc = "lock_handlers"
    /\ Free("event_handlers")
    /\ holder' = [holder EXCEPT !["event_handlers"] = Listener]
    /\ hnext' = 0
    /\ lpc' = "handlers"
    /\ UNCHANGED <<codec, supVars, timed_out, lcall, scall, bridgeVars, pc, cur, ret,
                   lmsg, nlines, handled, hooked, sweeperVars, clockVars, ncalls,
                   nattach, written, fired, registered, cancelled>>

HandlersOf(msg) ==
    IF msg.event \in DOMAIN event_handlers THEN event_handlers[msg.event] ELSE <<>>

(* The next handler is called with the payload.                            *)
ListenerInvokeHandler ==
    /\ lpc = "handlers"
    /\ holder["event_handlers"] = Listener
    /\ hnext < Len(HandlersOf(lmsg))
    /\ hnext' = hnext + 1
    /\ handled' = handled + 1
    /\ lpc' = "handler"
    /\ UNCHANGED <<codec, supVars, timed_out, lcall, scall, bridgeVars, holder, pc, cur,
                   ret, lmsg, nlines, hooked, sweeperVars, clockVars, ncalls,
                   nattach, written, fired, registered, cancelled>>

ListenerHandlerReturns ==
    /\ lpc = "handler"
    /\ lcall = NoCall
    /\ lpc' = "handlers"
    /\ UNCHANGED <<codec, supVars, callbackVars, bridgeVars, holder, pc, cur, ret, lmsg,
                   nlines, handled, hooked, sweeperVars, clockVars, ncalls, nattach,
                   written, fired, registered, cancelled>>

(* End of the handlers block: the guard is dropped, on_message is next.    *)
ListenerUnlockHandlers ==
    /\ lpc = "handlers"
    /\ holder["event_handlers"] = Listener
    /\ hnext >= Len(HandlersOf(lmsg))
    /\ holder' = [holder EXCEPT !["event_handlers"] = NoThread]
    /\ hnext' = 0
    /\ lpc' = "hook"
    /\ UNCHANGED <<codec, supVars, timed_out, lcall, scall, bridgeVars, pc, cur, ret,
                   lmsg, nlines, handled, hooked, sweeperVars, clockVars, ncalls,
                   nattach, written, fired, registered, cancelled>>

(* The timeout checker wakes up, locks pending_requests and collects the   *)
(* ids whose age exceeds their timeout.                                    *)
SweeperLock ==
    /\ spc = "sleep"
    /\ now >= wake
    /\ Free("pending_requests")
    /\ holder' = [holder EXCEPT !["pending_requests"] = Sweeper]
    /\ timed_out' = TimedOut(pending_requests)
    /\ spc' = "sweep"
    /\ UNCHANGED <<codec, supVars, hnext, lcall, scall, bridgeVars, pc, cur, ret,
                   listenerVars, wake, swept, clockVars, ncalls, nattach, written,
                   fired, registered, cancelled>>

(* for id in timed_out_ids: the entry is removed and its callback invoked  *)
(* with the timeout error, the lock still held.                            *)
SweeperInvoke ==
    /\ spc = "sweep"
    /\ \E id \in timed_out :
         /\ timed_out' = timed_out \ {id}
         /\ IF MapContains(pending_requests, id)
            THEN /\ pending_requests' = MapRemove(pending_requests, id)
                 /\ fired' = Invoke(fired, Unwrap(pending_requests[id]).callback,
                                    TimeoutResult(Unwrap(pending_requests[id])))
                 /\ spc' = "callback"
            ELSE UNCHANGED <<pending_requests, fired, spc>>
    /\ UNCHANGED <<codec, supVars, hnext, lcall, scall, stdin, event_handlers,
                   message_queue, request_timeout_secs, holder, pc, cur, ret,
                   listenerVars, wake, swept, clockVars, ncalls, nattach, written,
                   registered, cancelled>>

SweeperCalls ==
    /\ spc = "callback"
    /\ scall = NoCall
    /\ \E op \in BridgeMethods :
         /\ MayCall(op)
         /\ scall' = [op |-> op, msg |-> NullMsg]
    /\ UNCHANGED <<codec, supVars, timed_out, hnext, lcall, bridgeVars, holder, pc, cur,
                   ret, listenerVars, sweeperVars, clockVars, ncalls, nattach,
                   written, fired, registered, cancelled>>

SweeperNestedStep ==
    /\ spc = "callback"
    /\ NestedStep(Sweeper, scall, scall')
    /\ UNCHANGED <<codec, supVars, timed_out, hnext, lcall, stdin, request_timeout_secs,
                   holder, pc, cur, listenerVars, sweeperVars, clockVars, nattach,
                   fired>>

SweeperCallbackReturns ==
    /\ spc = "callback"
    /\ scall = NoCall
    /\ spc' = "sweep"
    /\ UNCHANGED <<codec, supVars, callbackVars, bridgeVars, holder, pc, cur, ret,
                   listenerVars, wake, swept, clockVars, ncalls, nattach, written,
                   fired, registered, cancelled>>

(* End of the loop body: the guard is dropped and the thread sleeps again. *)
SweeperUnlock ==
    /\ spc = "sweep"
    /\ timed_out = {}
    /\ holder' = [holder EXCEPT !["pending_requests"] = NoThread]
    /\ wake' = now + SweepIntervalSecs
    /\ swept' = TRUE
    /\ spc' = "sleep"
    /\ UNCHANGED <<codec, supVars, callbackVars, bridgeVars, pc, cur, ret, listenerVars,
                   clockVars, ncalls, nattach, written, fired, registered,
                   cancelled>>

(* -------------------------------- clocks ------------------------------- *)
Tick ==
    /\ \E later \in Times : later > now /\ now' = later
    /\ UNCHANGED <<codec, supVars, callbackVars, bridgeVars, holder, pc, cur, ret, listenerVars, sweeperVars, wall,
                   ncalls, nattach, written, fired, registered, cancelled>>

WallTick ==
    /\ wall < MaxWall
    /\ wall' = wall + 1
    /\ UNCHANGED <<codec, supVars, callbackVars, bridgeVars, holder, pc, cur, ret, listenerVars, sweeperVars, now,
                   ncalls, nattach, written, fired, registered, cancelled>>

(* One second passes.  thread::sleep(1 s) of a running timeout checker     *)
(* ends when the second is over: the clock does not pass the wake-up time  *)
(* of a checker that has not yet scanned.                                  *)
SecondPasses ==
    /\ now < MaxSecs
    /\ spc = "sleep" => now + 1 <= wake
    /\ now' = now + 1
    /\ UNCHANGED <<codec, supVars, callbackVars, bridgeVars, holder, pc, cur, ret, listenerVars, sweeperVars, wall,
                   ncalls, nattach, written, fired, registered, cancelled>>

(* ===================== process.rs: ProcessManager ====================== *)
MAX_RESTART_ATTEMPTS == 5
RESTART_COOLDOWN_SECS == 5
ShutdownPolls == 30          \* shutdown_timeout: iterations of the wait loop
ShutdownPollMillis == 100    \* the sleep of one iteration
ShutdownWaitSecs == (ShutdownPolls * ShutdownPollMillis) \div 1000
(* The last try_wait of the loop comes after ShutdownPolls - 1 sleeps.     *)
ShutdownLastPollSecs == ((ShutdownPolls - 1) * ShutdownPollMillis) \div 1000

(* What the supervisor leaves alone: the bridge, except the clock and the  *)
(* last return value.                                                      *)
ipcVars == <<bridgeVars, holder, pc, cur, listenerVars, sweeperVars, wall,
             ncalls, nattach, written, fired, registered, cancelled, codec,
             callbackVars>>

(* Command::spawn: the new process runs.                                   *)
SpawnProcess(ps, p) == [ps EXCEPT ![p] = "running"]

(* Child::try_wait: None while the process runs, else its exit status.     *)
try_wait(p) == IF procs[p] = "running" THEN None ELSE Some(procs[p])

(* ExitStatus::success                                                     *)
success(status) == status = "exited_ok"

LiveChildren == {p \in Pids : procs[p] = "running"}

is_running == IsSome(child)
get_pid == child
get_restart_attempts == restart_attempts
health_check == IsSome(child)

StoppedMonitor == {"off", "done", "halted"}

(* ---------------------------- start_node_backend ----------------------- *)
StartSpawnFailureClears ==
    /\ opc = "idle"
    /\ \/ /\ nspawn < MaxSpawns
          /\ nspawn' = nspawn + 1
          /\ procs' = SpawnProcess(procs, nspawn + 1)
          /\ onew' = nspawn + 1
          /\ opc' = "start_store"
          /\ UNCHANGED <<ret, managerVars>>
       \/ /\ ret' = Ret(Owner, "start_node_backend", FALSE, 0)
          /\ child' = None
          /\ restart_attempts' = 0
          /\ UNCHANGED <<nspawn, procs, onew, opc, last_restart>>
    /\ UNCHANGED <<ipcVars, now, child_lock, osince, monitorVars>>

(* Command::spawn, before the child lock is taken; a spawn error returns   *)
(* Err and changes nothing.                                                *)
StartSpawn ==
    /\ opc = "idle"
    /\ \/ /\ nspawn < MaxSpawns
          /\ nspawn' = nspawn + 1
          /\ procs' = SpawnProcess(procs, nspawn + 1)
          /\ onew' = nspawn + 1
          /\ opc' = "start_store"
          /\ UNCHANGED ret
       \/ /\ ret' = Ret(Owner, "start_node_backend", FALSE, 0)
          /\ UNCHANGED <<nspawn, procs, onew, opc>>
    /\ UNCHANGED <<ipcVars, now, managerVars, child_lock, osince, monitorVars>>

(* *self.child.lock().unwrap() = Some(process)                             *)
StartStore ==
    /\ opc = "start_store"
    /\ child_lock = NoThread
    /\ child' = Some(onew)
    /\ ret' = Ret(Owner, "start_node_backend", TRUE, 0)
    /\ opc' = "idle"
    /\ onew' = 0
    /\ UNCHANGED <<ipcVars, now, restart_attempts, last_restart, child_lock,
                   procs, nspawn, osince, monitorVars>>

(* ----------------------------- restart_on_crash ------------------------ *)
(* restart_on_crash spawns a monitor thread and returns.                   *)
RestartOnCrash(m) ==
    /\ opc = "idle"
    /\ mpc[m] \in StoppedMonitor
    /\ mpc' = [mpc EXCEPT ![m] = "poll"]
    /\ UNCHANGED <<ipcVars, now, ret, managerVars, child_lock, procs, nspawn,
                   ownerVars, mnew, mwake>>

AfterCleanExitKeeps(attempts) == attempts

(* *restart_attempts.lock().unwrap() = 0                                   *)
AfterCleanExit(attempts) == 0

GivesUpLate(attempts) == attempts > MAX_RESTART_ATTEMPTS

(* if attempts >= MAX_RESTART_ATTEMPTS { ... break }                       *)
GivesUp(attempts) == attempts >= MAX_RESTART_ATTEMPTS

CooldownWaitNone(last, t) == 0

(* The cooldown: the seconds to sleep when the last restart was at `last`. *)
CooldownWait(last, t) ==
    LET elapsed == t - last
    IN  IF elapsed < RESTART_COOLDOWN_SECS
        THEN RESTART_COOLDOWN_SECS - elapsed
        ELSE 0

(* One iteration of the monitor loop that finds the held child exited (an  *)
(* iteration that finds no child, a running child or a try_wait error      *)
(* changes nothing).  A clean exit resets the counter and ends the thread; *)
(* a failure at the maximum ends the thread; a failure below it goes on to *)
(* the respawn, after the cooldown sleep, which is taken with the child    *)
(* lock held.                                                              *)
MonitorPoll(m) ==
    /\ mpc[m] = "poll"
    /\ child_lock = NoThread
    /\ IsSome(child)
    /\ IsSome(try_wait(Unwrap(child)))
    /\ LET status == Unwrap(try_wait(Unwrap(child)))
           wait == IF IsSome(last_restart)
                   THEN CooldownWait(Unwrap(last_restart), now)
                   ELSE 0
       IN  IF success(status)
           THEN /\ restart_attempts' = AfterCleanExit(restart_attempts)
                /\ mpc' = [mpc EXCEPT ![m] = "done"]
                /\ UNCHANGED <<child_lock, mwake>>
           ELSE IF GivesUp(restart_attempts)
                THEN /\ mpc' = [mpc EXCEPT ![m] = "halted"]
                     /\ UNCHANGED <<restart_attempts, child_lock, mwake>>
                ELSE IF wait > 0
                     THEN /\ child_lock' = m
                          /\ mwake' = [mwake EXCEPT ![m] = now + wait]
                          /\ mpc' = [mpc EXCEPT ![m] = "cooldown"]
                          /\ UNCHANGED restart_attempts
                     ELSE /\ mpc' = [mpc EXCEPT ![m] = "spawn"]
                          /\ UNCHANGED <<restart_attempts, child_lock, mwake>>
    /\ UNCHANGED <<ipcVars, now, ret, child, last_restart, procs, nspawn,
                   ownerVars, mnew>>

(* The cooldown sleep is over: drop(child_lock).                           *)
MonitorCooldownEnds(m) ==
    /\ mpc[m] = "cooldown"
    /\ now >= mwake[m]
    /\ child_lock' = NoThread
    /\ mpc' = [mpc EXCEPT ![m] = "spawn"]
    /\ UNCHANGED <<ipcVars, now, ret, managerVars, procs, nspawn, ownerVars,
                   mnew, mwake>>

MonitorSpawnFailureUncounted(m) ==
    /\ mpc[m] = "spawn"
    /\ \/ /\ nspawn < MaxSpawns
          /\ nspawn' = nspawn + 1
          /\ procs' = SpawnProcess(procs, nspawn + 1)
          /\ mnew' = [mnew EXCEPT ![m] = nspawn + 1]
          /\ mpc' = [mpc EXCEPT ![m] = "store"]
          /\ UNCHANGED <<restart_attempts, mwake>>
       \/ /\ mpc' = [mpc EXCEPT ![m] = "done"]
          /\ mwake' = [mwake EXCEPT ![m] = 0]
          /\ UNCHANGED <<nspawn, procs, mnew, restart_attempts>>
    /\ UNCHANGED <<ipcVars, now, ret, child, last_restart, child_lock,
                   ownerVars>>

(* Command::spawn of the respawn; a spawn error counts as an attempt and   *)
(* ends the thread.                                                        *)
MonitorSpawn(m) ==
    /\ mpc[m] = "spawn"
    /\ \/ /\ nspawn < MaxSpawns
          /\ nspawn' = nspawn + 1
          /\ procs' = SpawnProcess(procs, nspawn + 1)
          /\ mnew' = [mnew EXCEPT ![m] = nspawn + 1]
          /\ mpc' = [mpc EXCEPT ![m] = "store"]
          /\ UNCHANGED <<restart_attempts, mwake>>
       \/ /\ restart_attempts' = restart_attempts + 1
          /\ mpc' = [mpc EXCEPT ![m] = "done"]
          /\ mwake' = [mwake EXCEPT ![m] = 0]
          /\ UNCHANGED <<nspawn, procs, mnew>>
    /\ UNCHANGED <<ipcVars, now, ret, child, last_restart, child_lock,
                   ownerVars>>

(* *child_clone.lock().unwrap() = Some(process)                            *)
MonitorStore(m) ==
    /\ mpc[m] = "store"
    /\ child_lock = NoThread
    /\ child' = Some(mnew[m])
    /\ mpc' = [mpc EXCEPT ![m] = "count"]
    /\ UNCHANGED <<ipcVars, now, ret, restart_attempts, last_restart, child_lock,
                   procs, nspawn, ownerVars, mnew, mwake>>

(* *restart_attempts.lock().unwrap() += 1                                  *)
MonitorCount(m) ==
    /\ mpc[m] = "count"
    /\ restart_attempts' = restart_attempts + 1
    /\ mpc' = [mpc EXCEPT ![m] = "stamp"]
    /\ UNCHANGED <<ipcVars, now, ret, child, last_restart, child_lock,
                   procs, nspawn, ownerVars, mnew, mwake>>

(* *last_restart.lock().unwrap() = Some(Instant::now()), then the `break`  *)
(* that ends the match arm of an exited child.  The last_restart lock is   *)
(* held by a monitor through its cooldown sleep.                           *)
MonitorStamp(m) ==
    /\ mpc[m] = "stamp"
    /\ \A k \in Monitors : mpc[k] # "cooldown"
    /\ last_restart' = Some(now)
    /\ mpc' = [mpc EXCEPT ![m] = "done"]
    /\ mnew' = [mnew EXCEPT ![m] = 0]
    /\ mwake' = [mwake EXCEPT ![m] = 0]
    /\ UNCHANGED <<ipcVars, now, ret, child, restart_attempts, child_lock,
                   procs, nspawn, ownerVars>>

(* A running process exits, with status 0 or not.                          *)
ChildExits ==
    /\ \E p \in LiveChildren, status \in {"exited_ok", "exited_fail"} :
         procs' = [procs EXCEPT ![p] = status]
    /\ UNCHANGED <<ipcVars, now, ret, managerVars, child_lock, nspawn,
                   ownerVars, monitorVars>>

(* --------------------------- shutdown_gracefully ----------------------- *)
ShutdownBeginForgets ==
    /\ opc = "idle"
    /\ child_lock = NoThread
    /\ IF IsSome(child)
       THEN /\ child_lock' = Owner
            /\ onew' = Unwrap(child)
            /\ child' = None
            /\ osince' = now
            /\ opc' = "shutdown_wait"
            /\ UNCHANGED <<ret, restart_attempts, last_restart>>
       ELSE /\ ret' = Ret(Owner, "shutdown_gracefully", TRUE, 0)
            /\ restart_attempts' = 0
            /\ last_restart' = None
            /\ UNCHANGED <<child_lock, onew, child, osince, opc>>
    /\ UNCHANGED <<ipcVars, now, procs, nspawn, monitorVars>>

(* The child lock is taken and held to the end of the call; the handle is  *)
(* taken out and the process is sent SIGTERM.  With no child the call      *)
(* returns Ok at once.                                                     *)
ShutdownBegin ==
    /\ opc = "idle"
    /\ child_lock = NoThread
    /\ IF IsSome(child)
       THEN /\ child_lock' = Owner
            /\ onew' = Unwrap(child)
            /\ child' = None
            /\ osince' = now
            /\ opc' = "shutdown_wait"
            /\ UNCHANGED ret
       ELSE /\ ret' = Ret(Owner, "shutdown_gracefully", TRUE, 0)
            /\ UNCHANGED <<child_lock, onew, child, osince, opc>>
    /\ UNCHANGED <<ipcVars, now, restart_attempts, last_restart, procs, nspawn,
                   monitorVars>>

(* try_wait finds the process exited: Ok.                                  *)
ShutdownExited ==
    /\ opc = "shutdown_wait"
    /\ IsSome(try_wait(onew))
    /\ ret' = Ret(Owner, "shutdown_gracefully", TRUE, 0)
    /\ child_lock' = NoThread
    /\ opc' = "idle"
    /\ onew' = 0
    /\ osince' = 0
    /\ UNCHANGED <<ipcVars, now, managerVars, procs, nspawn, monitorVars>>

(* try_wait fails: Err, with the handle already taken.                     *)
ShutdownWaitError ==
    /\ opc = "shutdown_wait"
    /\ ret' = Ret(Owner, "shutdown_gracefully", FALSE, 0)
    /\ child_lock' = NoThread
    /\ opc' = "idle"
    /\ onew' = 0
    /\ osince' = 0
    /\ UNCHANGED <<ipcVars, now, managerVars, procs, nspawn, monitorVars>>

(* The last iteration of the wait loop: try_wait finds the process still   *)
(* running, and the loop ends with its sleep.                              *)
ShutdownLoopEnds ==
    /\ opc = "shutdown_wait"
    /\ ~IsSome(try_wait(onew))
    /\ now - osince >= ShutdownLastPollSecs
    /\ opc' = "shutdown_kill"
    /\ UNCHANGED <<ipcVars, now, ret, managerVars, child_lock, procs, nspawn,
                   onew, osince, monitorVars>>

KillsAtOnce(waited) == TRUE

(* The loop makes ShutdownPolls sleeps of ShutdownPollMillis before the    *)
(* kill.                                                                   *)
KillDue(waited) == waited >= ShutdownWaitSecs

(* child.kill() after the loop, without another try_wait: it ends a        *)
(* process that still runs, is Ok on one that exited during the last       *)
(* sleep, or fails.                                                        *)
ShutdownForceKill ==
    /\ opc = "shutdown_kill"
    /\ KillDue(now - osince)
    /\ \/ /\ procs' = IF IsSome(try_wait(onew))
                       THEN procs
                       ELSE [procs EXCEPT ![onew] = "exited_fail"]
          /\ ret' = Ret(Owner, "shutdown_gracefully", TRUE, 0)
       \/ /\ ret' = Ret(Owner, "shutdown_gracefully", FALSE, 0)
          /\ UNCHANGED procs
    /\ child_lock' = NoThread
    /\ opc' = "idle"
    /\ onew' = 0
    /\ osince' = 0
    /\ UNCHANGED <<ipcVars, now, managerVars, nspawn, monitorVars>>

(* -------------------------------- codec -------------------------------- *)
(* The IPCMessage values a caller can build.                               *)
WireMsgs ==
    {[id |-> i, msg_type |-> k, event |-> e, payload |-> p, error |-> r] :
        i \in {None} \cup {Some(x) : x \in Ids},
        k \in MsgTypeNames,
        e \in EventNames,
        p \in 0..MaxCalls,
        r \in {None, Some("boom")}}

(* JSON objects that are not wire messages: a member is missing or has the *)
(* wrong type, or the message type is not one of the three names.          *)
MalformedObjects ==
    LET o == Serialize(EventMsg("notify", 1))
    IN  {[o EXCEPT !.msg_type = JAbsent],
         [o EXCEPT !.msg_type = JString("Event")],
         [o EXCEPT !.msg_type = JNumber(1)],
         [o EXCEPT !.event = JAbsent],
         [o EXCEPT !.event = JNumber(1)],
         [o EXCEPT !.payload = JAbsent],
         [o EXCEPT !.id = JNumber(1)],
         [o EXCEPT !.error = JNumber(1)]}

(* Lines that hold no message: empty or whitespace only, not JSON, or a    *)
(* JSON object that is not a wire message.                                 *)
BadLines ==
    {BlankLine, [BlankLine EXCEPT !.nl = 0], GarbageLine}
        \cup {JsonLine(o, 1) : o \in MalformedObjects}

(* A message written by a peer that leaves out the members that are null.  *)
SparseLines ==
    {JsonLine([Serialize(m) EXCEPT !.id = JAbsent, !.error = JAbsent], 1) :
        m \in {EventMsg(e, 1) : e \in EventNames}}

(* encode_message_for_stdin(&msg)                                          *)
CodecEncode ==
    /\ codec.stage = "msg"
    /\ codec' = [codec EXCEPT !.stage = "line", !.own = TRUE,
                              !.line = encode_message_for_stdin(codec.msg).line]
    /\ UNCHANGED <<supVars, callbackVars, bridgeVars, holder, pc, cur, ret, listenerVars,
                   sweeperVars, clockVars, ncalls, nattach, written, fired,
                   registered, cancelled>>

(* A line that comes from elsewhere.                                       *)
CodecReceive ==
    /\ codec.stage = "msg"
    /\ \E l \in BadLines \cup SparseLines :
         codec' = [codec EXCEPT !.stage = "line", !.own = FALSE, !.line = l]
    /\ UNCHANGED <<supVars, callbackVars, bridgeVars, holder, pc, cur, ret, listenerVars,
                   sweeperVars, clockVars, ncalls, nattach, written, fired,
                   registered, cancelled>>

(* parse_stdin_message(&line)                                              *)
CodecParse ==
    /\ codec.stage = "line"
    /\ codec' = [codec EXCEPT !.stage = "done",
                              !.res = parse_stdin_message(codec.line)]
    /\ UNCHANGED <<supVars, callbackVars, bridgeVars, holder, pc, cur, ret, listenerVars,
                   sweeperVars, clockVars, ncalls, nattach, written, fired,
                   registered, cancelled>>

(* ------------------------------- waiting ------------------------------- *)
(* The lock a caller thread inside an operation takes next: send_to_node   *)
(* takes stdin and then, with stdin held, message_queue;                   *)
(* flush_message_queue takes message_queue and then, with it held, stdin;  *)
(* request takes pending_requests before it sends.                         *)
WaitsFor(t) ==
    CASE pc[t] = "send" -> "stdin"
      [] pc[t] = "send_queue" -> "message_queue"
      [] pc[t] = "flush" -> "message_queue"
      [] pc[t] = "flush_stdin" -> "stdin"
      [] pc[t] = "req_insert" -> "pending_requests"
      [] OTHER -> "none"

(* t cannot go on until u releases the lock t waits for.                   *)
BlockedBy(t, u) ==
    /\ WaitsFor(t) # "none"
    /\ holder[WaitsFor(t)] = u

(* ----------------------------- specification --------------------------- *)
(* request and the send_to_node it ends in                                 *)
RequestNext(t) ==
    \/ Request(t)
    \/ RequestInsert(t)
    \/ SendDirect(t)
    \/ SendNoStdin(t)
    \/ SendQueue(t)

AttachNext(t) ==
    \/ SetStdin(t)
    \/ FlushLockQueue(t)
    \/ FlushDrain(t)

OutboundNext(t) ==
    \/ Emit(t)
    \/ RequestNext(t)
    \/ AttachNext(t)
    \/ QueueMessage(t)

(* The callers of the correlation table while no channel is attached:      *)
(* every request is stored and then queued.                                *)
CorrelationNext(t) ==
    \/ Request(t)
    \/ RequestWithTimeout(t)
    \/ RequestInsert(t)
    \/ SendNoStdin(t)
    \/ SendQueue(t)
    \/ CancelRequest(t)
    \/ StartStdoutListener(t)
    \/ StartTimeoutChecker(t)

Background ==
    \/ ListenerRead
    \/ ListenerHandlers
    \/ ListenerHook
    \/ ListenerStop
    \/ TimeoutCheck
    \/ Tick

MonitorNext(m) ==
    \/ MonitorPoll(m)
    \/ MonitorCooldownEnds(m)
    \/ MonitorSpawn(m)
    \/ MonitorStore(m)
    \/ MonitorCount(m)
    \/ MonitorStamp(m)

OwnerNext ==
    \/ StartSpawn
    \/ StartStore
    \/ ShutdownBegin
    \/ ShutdownExited
    \/ ShutdownWaitError
    \/ ShutdownLoopEnds
    \/ ShutdownForceKill

(* The codec functions on their own, applied to every message a caller can *)
(* build and to lines that hold no message.                                *)
InitCodec ==
    /\ InitState
    /\ \E m \in WireMsgs : codec = Codec("msg", m, FALSE, BlankLine, NoParse)

NextCodec == CodecEncode \/ CodecReceive \/ CodecParse

SpecCodec == InitCodec /\ [][NextCodec]_vars

(* The whole program: every operation of the bridge on every caller        *)
(* thread, the listener, the timeout checker, the process manager with its *)
(* monitor threads, the child processes and the clocks.                    *)
Next ==
    \/ \E t \in Callers : OutboundNext(t) \/ CorrelationNext(t) \/ On(t)
    \/ Background
    \/ WallTick
    \/ SecondPasses
    \/ OwnerNext
    \/ \E m \in Monitors : RestartOnCrash(m) \/ MonitorNext(m)
    \/ ChildExits

Spec == Init /\ [][Next]_vars

(* The outbound path alone: callers that emit, request, queue and attach.  *)
(* No step of this path branches on a request id, so the system clock is   *)
(* left at its first reading here.                                         *)
NextOut == \E t \in Callers : OutboundNext(t)

SpecOut == Init /\ [][NextOut]_vars

(* The outbound path used from a single thread.                            *)
NextSeq == OutboundNext("t1") \/ WallTick

SpecSeq == Init /\ [][NextSeq]_vars

(* The correlation table: one caller thread that requests and cancels     *)
(* before a channel is attached, the listener thread and the timeout       *)
(* checker thread.  The outbound path writes none of pending_requests and  *)
(* fired, which is all that the listener and the checker read.             *)
NextCorr == CorrelationNext("t1") \/ Background \/ WallTick

SpecCorr == Init /\ [][NextCorr]_vars

(* Requests that get no reply, second by second: one caller thread whose   *)
(* requests are stored and queued, and the timeout checker thread.         *)
NextSweep ==
    \/ Request("t1")
    \/ RequestWithTimeout("t1")
    \/ RequestInsert("t1")
    \/ SendNoStdin("t1")
    \/ SendQueue("t1")
    \/ StartTimeoutChecker("t1")
    \/ TimeoutCheck
    \/ SecondPasses
    \/ WallTick

SpecSweep == Init /\ [][NextSweep]_vars

(* Requests on an attached channel whose write or flush may fail: one      *)
(* caller thread that attaches channels and requests, and the timeout      *)
(* checker thread.                                                         *)
NextFail ==
    \/ RequestNext("t1")
    \/ RequestWithTimeout("t1")
    \/ AttachNext("t1")
    \/ StartTimeoutChecker("t1")
    \/ TimeoutCheck
    \/ Tick

SpecFail == Init /\ [][NextFail]_vars

(* The stdout listener with handlers registered: one caller thread that    *)
(* requests and registers handlers, and the listener thread.               *)
NextListen ==
    \/ Request("t1")
    \/ RequestInsert("t1")
    \/ SendNoStdin("t1")
    \/ SendQueue("t1")
    \/ On("t1")
    \/ StartStdoutListener("t1")
    \/ ListenerRead
    \/ ListenerHandlers
    \/ ListenerHook
    \/ ListenerStop

SpecListen == Init /\ [][NextListen]_vars

(* The process manager with one crash monitor thread at a time: the owner  *)
(* starts the next one after the last one has ended.                       *)
NextMon ==
    \/ OwnerNext
    \/ RestartOnCrash("m1")
    \/ MonitorNext("m1")
    \/ ChildExits
    \/ SecondPasses

SpecMon == Init /\ [][NextMon]_vars

(* restart_on_crash called more than once: two crash monitor threads run   *)
(* beside each other on the child the owner started.                       *)
NextMonitors ==
    \/ StartSpawn
    \/ StartStore
    \/ \E m \in Monitors : RestartOnCrash(m) \/ MonitorNext(m)
    \/ ChildExits
    \/ SecondPasses

SpecMonitors == Init /\ [][NextMonitors]_vars

(* Callbacks and handlers that call the bridge: one caller thread that     *)
(* makes requests and reads the count, the listener and the timeout        *)
(* checker, each callback a stretch of its thread's run.  Handlers are     *)
(* registered and requests cancelled from inside callbacks.                *)
NextCallbacks ==
    \/ Request("t1")
    \/ RequestInsert("t1")
    \/ SendNoStdin("t1")
    \/ SendQueue("t1")
    \/ PendingRequestCount("t1")
    \/ StartStdoutListener("t1")
    \/ StartTimeoutChecker("t1")
    \/ ListenerReadLine
    \/ ListenerLockRequests
    \/ ListenerCalls
    \/ ListenerNestedStep
    \/ ListenerCallbackReturns
    \/ ListenerLockHandlers
    \/ ListenerInvokeHandler
    \/ ListenerHandlerReturns
    \/ ListenerUnlockHandlers
    \/ ListenerHook
    \/ SweeperLock
    \/ SweeperInvoke
    \/ SweeperCalls
    \/ SweeperNestedStep
    \/ SweeperCallbackReturns
    \/ SweeperUnlock
    \/ Tick

SpecCallbacks == Init /\ [][NextCallbacks]_vars

(* ======================= correlation table ============================= *)
Callbacks == 1..MaxCalls

(* The callback c is the one stored in some entry of the table.            *)
IsPending(c) ==
    \E id \in MapKeys(pending_requests) : Unwrap(pending_requests[id]).callback = c

TimesFired(c) == Len(fired[c])

(* C1: the completion callback of a registered request is invoked at most  *)
(* once, whichever of the listener, the timeout checker and cancel_request *)
(* removes its entry first; once it has been invoked or cancelled its      *)
(* entry is gone, so the other paths find nothing to resolve.              *)
C1_AtMostOnce ==
    \A c \in Callbacks :
        /\ TimesFired(c) <= 1
        /\ (TimesFired(c) = 1 \/ c \in cancelled) => ~IsPending(c)

(* The one request made (id 0) returned, a response resolved it, and the   *)
(* cancel of id 0 that came after the return found no entry; the timeout   *)
(* checker is running, past the deadline of the request.                   *)
C1_Witness ==
    /\ registered = {1}
    /\ ncalls = 1
    /\ wall = 0
    /\ fired[1] = <<OkResult(7)>>
    /\ pc["t1"] = "idle"
    /\ ret = Ret("t1", "cancel_request", FALSE, 0)
    /\ spc = "sleep"
    /\ wake > DEFAULT_REQUEST_TIMEOUT_SECS + 1

(* C2: every registered request that was not cancelled is still in the     *)
(* table or has had its callback invoked exactly once: no callback is lost *)
(* without being invoked.                                                  *)
C2_ExactlyOnce ==
    \A c \in registered \ cancelled : IsPending(c) \/ TimesFired(c) = 1

(* A cancel_request step, and what has become of the cancelled callbacks.  *)
C3_CancelStep ==
    \A t \in Callers :
        CancelRequest(t) =>
            LET id == ret'.val
            IN  /\ ret'.op = "cancel_request"
                /\ ret'.ok = MapContains(pending_requests, id)
                /\ ~MapContains(pending_requests', id)
                /\ \A other \in Ids \ {id} :
                       pending_requests'[other] = pending_requests[other]
                /\ ~ret'.ok => pending_requests' = pending_requests
                /\ fired' = fired

C3_CancelledNeverFires ==
    \A c \in cancelled : TimesFired(c) = 0 /\ ~IsPending(c)

(* C3: cancel_request(id) returns true exactly when the id was in the      *)
(* table, leaves the table without that id and otherwise unchanged, and    *)
(* the callback of a request whose cancel returned true is never invoked.  *)
C3_Cancel == [][C3_CancelStep]_vars /\ []C3_CancelledNeverFires

(* The first request (id 0) was cancelled while pending; the second one    *)
(* got the same id, and the response with id 0 that followed invoked the   *)
(* second callback and not the cancelled one.                              *)
C3_Witness ==
    /\ cancelled = {1}
    /\ wall = 0
    /\ fired[1] = <<>>
    /\ fired[2] = <<OkResult(7)>>

(* The step that stores a new PendingRequest.                              *)
C4_InsertStep ==
    \A t \in Callers :
        RequestInsert(t) => ~MapContains(pending_requests, Unwrap(cur[t].msg.id))

(* C4: the id of a new request is not the id of an entry that is still in  *)
(* the table, so the insert never replaces a pending request.              *)
C4_FreshId == [][C4_InsertStep]_vars

(* A listener step that decodes a message; one that decodes a matched      *)
(* response.                                                               *)
ReadsMessage == ListenerRead /\ lmsg' # NullMsg

C5_ResponseStep ==
    (ReadsMessage /\ IsMatchedResponse(lmsg')) =>
        LET id == Unwrap(lmsg'.id)
            c == Unwrap(pending_requests[id]).callback
            result == IF lmsg'.error = None
                      THEN OkResult(lmsg'.payload)
                      ELSE ErrResult(Unwrap(lmsg'.error), 0)
        IN  /\ ~MapContains(pending_requests', id)
            /\ \A other \in Ids \ {id} :
                   pending_requests'[other] = pending_requests[other]
            /\ fired' = [fired EXCEPT ![c] = Append(@, result)]

(* C5: a response whose id is pending is removed from the table and its    *)
(* callback is invoked once, with Ok(payload) when the message has no      *)
(* error and with Err(error) when it has one, whatever the payload.        *)
C5_MatchedResponse == [][C5_ResponseStep]_vars

(* A callback received Err("boom") from a response that also had a payload. *)
C5_Witness ==
    \E c \in Callbacks :
        /\ fired[c] = <<ErrResult("boom", 0)>>
        /\ lmsg.payload = 7
        /\ lmsg.error = Some("boom")
        /\ \E d \in Callbacks : fired[d] = <<OkResult(7)>>

(* A listener step that decodes an unmatched response, and the steps that *)
(* follow it.                                                              *)
C6_UnmatchedStep ==
    (ReadsMessage /\ lmsg'.msg_type = "response" /\ ~IsMatchedResponse(lmsg')) =>
        /\ fired' = fired
        /\ pending_requests' = pending_requests
        /\ lpc' = "handlers"

C6_GoesOn ==
    /\ lpc = "handlers" => lpc' \in {"handlers", "hook"}
    /\ lpc = "hook" => lpc' \in {"hook", "read"}
    /\ (lpc \in {"handlers", "hook"} /\ lpc' # lpc) =>
           (fired' = fired /\ pending_requests' = pending_requests)

(* C6: a response whose id is not in the table invokes no callback and     *)
(* leaves the table unchanged; the listener does not stop, it goes through *)
(* the handlers and the on_message hook back to reading.                   *)
C6_UnmatchedResponse == [][C6_UnmatchedStep /\ C6_GoesOn]_vars

(* An error response resolved the only request; the response read after it *)
(* (no error, same id) matched nothing, went through the hook and left the *)
(* listener reading.                                                       *)
C6_Witness ==
    /\ nlines = 2
    /\ hooked = 1
    /\ registered = {1}
    /\ fired[1] = <<ErrResult("boom", 0)>>
    /\ lmsg = ResponseMsg(0, "get_data", 7)
    /\ pending_request_count = 0
    /\ lpc = "read"

(* =========================== outbound path ============================= *)
(* The lines a channel took, in order, and the messages they carry.        *)
Delivered == SelectSeq(written, LAMBDA w : w.ok)
DeliveredNumbers == [i \in 1..Len(Delivered) |-> Delivered[i].line.obj.payload.n]
UpTo(n) == [i \in 1..n |-> i]

NoWriteFailed == \A i \in 1..Len(written) : written[i].ok

(* C7: when the first set_stdin of a single-threaded caller has drained    *)
(* with every write succeeding, the channel has received the messages of   *)
(* all the calls made before it, each once, in the order of the calls, and *)
(* the buffer is empty.                                                    *)
C7_FifoOnAttach ==
    (nattach = 1 /\ pc["t1"] = "idle" /\ ret.op = "set_stdin" /\ ret.ok) =>
        /\ DeliveredNumbers = UpTo(ncalls)
        /\ \A i \in 1..Len(written) :
               written[i].ok /\ written[i].ch = 1 /\ written[i].line.nl = 1
        /\ message_queue = <<>>

(* A request and then an emit were buffered, then drained by set_stdin.    *)
C7_Witness ==
    /\ nattach = 1 /\ pc["t1"] = "idle" /\ ret.op = "set_stdin" /\ ret.ok
    /\ Len(written) = 2
    /\ written[1].line.obj.msg_type = JString("request")
    /\ written[2].line.obj = Serialize(EventMsg("notify", 2))
    /\ \A i \in 1..2 : written[i].via = "flush"

(* C8: while every write succeeds, no message of a call that began after   *)
(* a channel was installed is on the channel while a message buffered by   *)
(* emit or request is still in the buffer.                                 *)
C8_DrainBeforeDirect ==
    NoWriteFailed =>
        ~ \E i \in 1..Len(written), j \in 1..Len(message_queue) :
              /\ written[i].via = "direct"
              /\ written[i].post
              /\ message_queue[j].event # "queued"

(* The two steps of send_to_node when no channel is attached.              *)
C9_FindsNoChannel ==
    \A t \in Callers :
        (SendNoStdin(t) \/ (pc[t] = "send" /\ stdin = None /\ pc'[t] # "send")) =>
            /\ pc'[t] = "send_queue"
            /\ written' = written
            /\ message_queue' = message_queue
            /\ stdin' = None

C9_QueueStep ==
    \A t \in Callers :
        SendQueue(t) =>
            /\ stdin = None /\ stdin' = None
            /\ ret' = Ret(t, SendOp(cur[t]), TRUE, SendVal(cur[t]))
            /\ message_queue' = Append(message_queue, cur[t].msg)
            /\ Len(message_queue') = queue_size + 1
            /\ written' = written
            /\ pc'[t] = "idle"

(* C9: a call that finds no channel attached returns success after         *)
(* appending its message at the tail of the buffer, which grows by one,    *)
(* and writes nothing.                                                     *)
C9_QueuedWhenNoChannel == [][C9_FindsNoChannel /\ C9_QueueStep]_vars

(* A request was queued behind another message and returned Ok(id).        *)
C9_Witness ==
    /\ stdin = None
    /\ ret.op = "request" /\ ret.ok
    /\ Len(message_queue) = 2
    /\ message_queue[2].msg_type = "request"
    /\ written = <<>>

(* A drain that stops at a failed write, and what was delivered so far.    *)
C10_FailedDrainStep ==
    \A t \in Callers :
        (FlushDrain(t) /\ ~ret'.ok) =>
            \E k \in 0..(Len(message_queue) - 1) :
                /\ ret'.val = k
                /\ message_queue' = SubSeq(message_queue, k + 1, Len(message_queue))
                /\ Len(written') = Len(written) + k + 1
                /\ \A i \in 1..(k + 1) :
                       /\ written'[Len(written) + i].line.obj = Serialize(message_queue[i])
                       /\ written'[Len(written) + i].ok = (i <= k)
                /\ SubSeq(written', 1, Len(written)) = written

C10_NoResend ==
    /\ \A i, j \in 1..Len(Delivered) :
           i # j => Delivered[i].line.obj # Delivered[j].line.obj
    /\ \A i \in 1..Len(Delivered), j \in 1..Len(message_queue) :
           Delivered[i].line.obj # Serialize(message_queue[j])

(* C10: when a write fails during the drain, the messages written before   *)
(* it have left the buffer, the failing message is at the head, the rest   *)
(* follows in its order; and no message is delivered twice or delivered    *)
(* while it is still in the buffer.                                        *)
C10_FailedDrain == [][C10_FailedDrainStep]_vars /\ []C10_NoResend

(* A drain wrote message 1 and failed on message 2; the drain of the next  *)
(* set_stdin wrote message 2 only.                                         *)
C10_Witness ==
    /\ Len(written) = 3
    /\ \A i \in 1..3 : written[i].via = "flush"
    /\ written[1].ok /\ ~written[2].ok /\ written[3].ok
    /\ written[1].line.obj.payload = JNumber(1)
    /\ written[2].line.obj.payload = JNumber(2)
    /\ written[3].line.obj.payload = JNumber(2)
    /\ written[3].ch = 2
    /\ message_queue = <<>>

(* ====================== requests that get no reply ===================== *)
(* The insert of request / request_with_timeout: the table gains the id of *)
(* the call, and one entry when that id was not in it.                     *)
C11_InsertStep ==
    \A t \in Callers :
        RequestInsert(t) =>
            LET id == Unwrap(cur[t].msg.id)
            IN  /\ MapKeys(pending_requests') = MapKeys(pending_requests) \cup {id}
                /\ Unwrap(pending_requests'[id]).callback = cur[t].msg.payload
                /\ ~MapContains(pending_requests, id) =>
                       MapLen(pending_requests') = pending_request_count + 1

(* The write or the flush of a request fails on an attached channel.       *)
C11_FailedSendStep ==
    \A t \in Callers :
        (SendDirect(t) /\ cur[t].msg.msg_type = "request" /\ ~ret'.ok) =>
            /\ ret'.op = "request"
            /\ pending_requests' = pending_requests
            /\ fired' = fired

(* An id leaves the table only when the timeout checker expires its entry. *)
C11_LeavesOnlyByExpiry ==
    \A id \in Ids :
        (MapContains(pending_requests, id) /\ ~MapContains(pending_requests', id)) =>
            LET e == Unwrap(pending_requests[id])
            IN  /\ Elapsed(e.created_at) > e.timeout
                /\ fired'[e.callback] = Append(fired[e.callback], TimeoutResult(e))

(* C11: when the write or flush of a request fails on an attached channel, *)
(* the call returns an error and the entry it inserted stays in the table  *)
(* (which gained one entry at the insert); with no reply and no cancel the *)
(* id leaves the table only when the timeout checker expires it.           *)
C11_FailedSend ==
    [][C11_InsertStep /\ C11_FailedSendStep /\ C11_LeavesOnlyByExpiry]_vars

(* The only request made returned an error from an attached channel, its   *)
(* entry is in the table and the timeout checker is running.               *)
C11_Witness ==
    /\ IsSome(stdin)
    /\ pc["t1"] = "idle"
    /\ ret.op = "request" /\ ~ret.ok
    /\ registered = {1}
    /\ pending_request_count = 1
    /\ fired[1] = <<>>
    /\ spc = "sleep"

(* A scan of the timeout checker: what it removes and what it leaves.      *)
C12_ExpiryStep ==
    TimeoutCheck =>
        \A id \in MapKeys(pending_requests) :
            LET e == Unwrap(pending_requests[id])
            IN  IF Elapsed(e.created_at) > e.timeout
                THEN /\ ~MapContains(pending_requests', id)
                     /\ fired'[e.callback] = Append(fired[e.callback], TimeoutResult(e))
                ELSE /\ pending_requests'[id] = pending_requests[id]
                     /\ fired'[e.callback] = fired[e.callback]

(* Once the checker has scanned, no entry is older than its timeout plus   *)
(* one sweep interval.                                                     *)
C12_DetectedWithinInterval ==
    (spc = "sleep" /\ swept) =>
        \A id \in MapKeys(pending_requests) :
            Elapsed(Unwrap(pending_requests[id]).created_at)
                <= Unwrap(pending_requests[id]).timeout + SweepIntervalSecs

TotalFired ==
    LET S[n \in 0..MaxCalls] == IF n = 0 THEN 0 ELSE S[n - 1] + Len(fired[n])
    IN  S[MaxCalls]

C13_Step ==
    /\ ReadsMessage =>
           /\ handled' = handled
           /\ lpc' = IF IsMatchedResponse(lmsg') THEN "read" ELSE "handlers"
    /\ ListenerHandlers =>
           /\ handled' = handled + Len(event_handlers[lmsg.event])
           /\ lpc' = "hook"
    /\ ~ListenerHandlers => handled' = handled

(* C13: a decoded message that is not a response completing a pending      *)
(* request has every handler registered for its event name invoked; a      *)
(* response that completes a pending request invokes no handler.           *)
C13_HandlersUnlessMatched == [][C13_Step]_vars

(* A handler was registered for "get_data" before the request was made;    *)
(* the response that completed the request invoked no handler.             *)
C13_Witness ==
    /\ ret.op = "request"
    /\ event_handlers["get_data"] # <<>>
    /\ registered = {1}
    /\ fired[1] = <<OkResult(7)>>
    /\ nlines = 1
    /\ handled = 0
    /\ lpc = "read"

(* C13 as stated: every decoded message, a response that completed a       *)
(* pending request included, goes on to the handlers of its event name.    *)
C13_HandlersForEveryDecoded ==
    [][(ReadsMessage /\ event_handlers[lmsg'.event] # <<>>) => lpc' = "handlers"]_vars

C14_Step ==
    /\ ListenerHook => (hooked' = hooked + 1 /\ lpc' = "read")
    /\ ~ListenerHook => hooked' = hooked
    /\ ReadsMessage => lpc' = IF IsMatchedResponse(lmsg') THEN "read" ELSE "handlers"
    /\ (lpc = "handlers" /\ lpc' # lpc) => lpc' = "hook"
    /\ (lpc = "hook" /\ lpc' # lpc) => ListenerHook

(* Every line read is blank or unparsable, completed a request, is on its  *)
(* way to the hook, or was passed to the hook once.                        *)
C14_Count ==
    hooked + TotalFired + (IF lpc \in {"handlers", "hook"} THEN 1 ELSE 0) <= nlines

(* C14: the on_message hook is invoked once for every decoded message that *)
(* is not a response completing a pending request, and not at all for a    *)
(* response that completes one.                                            *)
C14_HookUnlessMatched == [][C14_Step]_vars /\ []C14_Count

(* Two lines were decoded: an event, passed to the hook, and the response  *)
(* that completed the request, not passed to it.                           *)
C14_Witness ==
    /\ nlines = 2
    /\ hooked = 1
    /\ registered = {1}
    /\ fired[1] = <<OkResult(7)>>
    /\ lmsg = EventMsg("notify", 7)
    /\ lpc = "read"

(* C14 as stated: whenever the listener is between two lines, the hook has *)
(* been invoked for every decoded line, completed requests included.       *)
C14_HookedEveryDecoded ==
    lpc \in {"read", "stopped"} => hooked >= TotalFired

(* A line that is blank or does not parse.                                 *)
C15_SkipStep ==
    (ListenerRead /\ lmsg' = NullMsg) =>
        /\ pending_requests' = pending_requests
        /\ fired' = fired
        /\ handled' = handled
        /\ hooked' = hooked
        /\ lpc' = "read"

C15_StopsOnlyOnClose ==
    (lpc # "stopped" /\ lpc' = "stopped") => ListenerStop

(* C15: a blank or unparsable line changes neither the table nor invokes a *)
(* callback, a handler or the hook, and leaves the listener reading, so    *)
(* the lines after it are decoded and dispatched; the listener stops only  *)
(* at the end of the stream or on a read error.                            *)
C15_BadLineSkipped == [][C15_SkipStep /\ C15_StopsOnlyOnClose]_vars

(* The first line was skipped, the second one was the response that        *)
(* completed the request.                                                  *)
C15_Witness ==
    /\ nlines = 2
    /\ hooked = 0
    /\ handled = 0
    /\ registered = {1}
    /\ fired[1] = <<OkResult(7)>>
    /\ lmsg = ResponseMsg(0, "get_data", 7)
    /\ lpc = "read"

(* ========================== process manager ============================ *)
(* The held child has exited with a failure status.                        *)
HeldChildFailed == IsSome(child) /\ procs[Unwrap(child)] = "exited_fail"

HeldChildExitedClean == IsSome(child) /\ procs[Unwrap(child)] = "exited_ok"

(* A monitor that has spawned a process and not yet counted it.            *)
Uncounted(m) == IF mpc[m] \in {"store", "count"} THEN 1 ELSE 0

C16_Bound ==
    restart_attempts + Uncounted("m1") + Uncounted("m2") <= MAX_RESTART_ATTEMPTS

C16_Step ==
    \A m \in Monitors :
        /\ (MonitorPoll(m) /\ HeldChildFailed
              /\ restart_attempts >= MAX_RESTART_ATTEMPTS) =>
               /\ mpc'[m] = "halted"
               /\ restart_attempts' = restart_attempts
               /\ nspawn' = nspawn /\ procs' = procs /\ child' = child
        /\ MonitorSpawn(m) => restart_attempts < MAX_RESTART_ATTEMPTS
        /\ (mpc[m] = "halted" /\ mpc'[m] # "halted") => RestartOnCrash(m)
        /\ restart_attempts' > restart_attempts =>
               restart_attempts' = restart_attempts + 1

(* C16: the respawns made by the crash monitor since the counter was last  *)
(* reset, failed spawns included, never exceed MAX_RESTART_ATTEMPTS; a     *)
(* failure exit found with the counter at the maximum spawns nothing,      *)
(* leaves the counter unchanged and ends the monitor, which stays ended    *)
(* until restart_on_crash is called again.                                 *)
C16_RestartBound == [][C16_Step]_vars /\ []C16_Bound

(* The counter reached 5 and the monitor that found the next failure exit  *)
(* gave up.                                                                *)
C16_Witness ==
    /\ mpc["m1"] = "halted"
    /\ restart_attempts = MAX_RESTART_ATTEMPTS
    /\ HeldChildFailed

(* C17: the monitor thread that has completed a respawn goes back to       *)
(* polling, so that a later failure exit of the new child is detected      *)
(* without another call of restart_on_crash.                               *)
C17_KeepsMonitoring ==
    [][\A m \in Monitors : MonitorStamp(m) => mpc'[m] = "poll"]_vars

C18_CleanExitStep ==
    \A m \in Monitors :
        /\ (MonitorPoll(m) /\ HeldChildExitedClean) =>
               /\ restart_attempts' = 0
               /\ nspawn' = nspawn /\ procs' = procs /\ child' = child
               /\ last_restart' = last_restart
               /\ mpc'[m] = "done"
        /\ (mpc[m] = "done" /\ mpc'[m] # "done") => RestartOnCrash(m)

(* C18: when the monitor finds the child exited with success status it     *)
(* sets the counter to 0, spawns nothing and ends; it polls again only     *)
(* after another call of restart_on_crash.                                 *)
C18_CleanExit == [][C18_CleanExitStep]_vars

(* A respawn had been counted and stamped; the respawned child then exited *)
(* with status 0 and the monitor reset the counter and ended.              *)
C18_Witness ==
    /\ mpc["m1"] = "done"
    /\ IsSome(last_restart)
    /\ restart_attempts = 0
    /\ HeldChildExitedClean
    /\ nspawn = 2

C19_Step ==
    \A m \in Monitors :
        /\ (MonitorSpawn(m) /\ nspawn' # nspawn) =>
               (IsSome(last_restart) =>
                    now - Unwrap(last_restart) >= RESTART_COOLDOWN_SECS)
        /\ (MonitorPoll(m) /\ mpc'[m] = "cooldown") =>
               mwake'[m] - Unwrap(last_restart) >= RESTART_COOLDOWN_SECS
        /\ MonitorCooldownEnds(m) => now >= mwake[m]

(* C19: a crash monitor spawns a process at least RESTART_COOLDOWN_SECS    *)
(* after the last recorded restart, which is stamped after the spawn of    *)
(* the previous respawn; when it finds a failure exit earlier than that it *)
(* sleeps the remainder first.                                             *)
C19_Cooldown == [][C19_Step]_vars

(* The first respawn was stamped at second 0; the failure exit of the new  *)
(* child was found before second 5, the monitor slept until second 5 and   *)
(* has spawned in that second.                                             *)
C19_Witness ==
    /\ mpc["m1"] = "store"
    /\ last_restart = Some(0)
    /\ mwake["m1"] = RESTART_COOLDOWN_SECS
    /\ now = RESTART_COOLDOWN_SECS

(* C20: at most one spawned process is running at any time.                *)
C20_OneLiveChild == Cardinality(LiveChildren) <= 1

(* ========================= graceful shutdown ========================== *)
(* The steps of the wait loop of shutdown_gracefully and of the kill that  *)
(* follows it.                                                             *)
C21_Step ==
    /\ ShutdownExited =>
           /\ ret' = Ret(Owner, "shutdown_gracefully", TRUE, 0)
           /\ procs' = procs
    /\ ShutdownLoopEnds =>
           /\ procs[onew] = "running"
           /\ now - osince >= ShutdownLastPollSecs
    /\ ShutdownForceKill => now - osince >= ShutdownWaitSecs
    /\ (opc = "shutdown_wait" /\ procs[onew] # "running") =>
           opc' # "shutdown_kill"

(* C21: shutdown_gracefully polls the child it signalled up to             *)
(* ShutdownPolls times at ShutdownPollMillis intervals (3 s) and only then *)
(* force-kills; a child found exited by a poll is reported as a confirmed  *)
(* exit, and once it has exited before the last poll it is never           *)
(* force-killed.                                                           *)
C21_KillAfterPolls == [][C21_Step]_vars

(* The loop has run out on a child that ignores the signal, three seconds  *)
(* after it: the kill is due.                                              *)
C21_Witness ==
    /\ opc = "shutdown_kill"
    /\ procs[onew] = "running"
    /\ now - osince = ShutdownWaitSecs

(* C21 as stated: the kill comes no earlier than 30 s after the signal,    *)
(* and never to a child that has exited.                                   *)
C21_KillAfterThirtySeconds ==
    [][ShutdownForceKill => (now - osince >= 30 /\ procs[onew] = "running")]_vars

(* C22: shutdown_gracefully called with no child handle held returns Ok    *)
(* and changes nothing: no process is signalled, the restart counter, the  *)
(* last-restart timestamp and the handle stay as they were; a shutdown     *)
(* that completes leaves no handle, so that a call that follows it at once *)
(* is such a call.                                                         *)
C22_ShutdownIdempotent ==
    [][/\ (ShutdownBegin /\ ~IsSome(child)) =>
              /\ ret' = Ret(Owner, "shutdown_gracefully", TRUE, 0)
              /\ UNCHANGED <<managerVars, child_lock, procs, nspawn, ownerVars,
                             monitorVars>>
       /\ (ShutdownExited \/ ShutdownWaitError \/ ShutdownForceKill) =>
              /\ child' = None
              /\ child_lock' = NoThread
              /\ opc' = "idle"
      ]_vars

(* A shutdown that failed left the only process running and no handle; the *)
(* call that followed found no handle and returned Ok.                     *)
C22_Witness ==
    /\ opc = "idle"
    /\ nspawn = 1
    /\ procs[1] = "running"
    /\ child = None
    /\ ret = Ret(Owner, "shutdown_gracefully", TRUE, 0)

(* ============================ failed spawns =========================== *)
(* C23: a start_node_backend whose spawn fails returns Err and changes     *)
(* nothing of the supervisor; when no handle was held none is held after   *)
(* it (is_running false, get_pid None).                                    *)
C23_FailedStart ==
    [][(StartSpawn /\ nspawn' = nspawn) =>
           /\ ret' = Ret(Owner, "start_node_backend", FALSE, 0)
           /\ UNCHANGED <<managerVars, child_lock, procs, ownerVars, monitorVars>>
           /\ ~is_running => (~is_running' /\ get_pid' = None)
      ]_vars

(* The first start failed: nothing was spawned, no handle is held and the  *)
(* counter is 0.                                                           *)
C23_Witness ==
    /\ ret = Ret(Owner, "start_node_backend", FALSE, 0)
    /\ opc = "idle"
    /\ nspawn = 0
    /\ ~is_running
    /\ get_pid = None
    /\ get_restart_attempts = 0

(* ================================ locks =============================== *)
(* C24: a thread that takes a lock holds no other lock.  SendQueue is the  *)
(* step of send_to_node that locks message_queue and FlushDrain the step   *)
(* of flush_message_queue that locks stdin.                                *)
C24_OneLockAtATime ==
    [][\A t \in Callers :
         (SendQueue(t) \/ FlushDrain(t)) => \A l \in Locks : holder[l] # t]_vars

(* C25: no caller threads wait for each other's locks in a cycle, and none *)
(* waits for a lock it holds itself.  (Only caller threads take a second   *)
(* bridge lock while they hold one.)                                       *)
C25_NoLockCycle ==
    \A t \in Callers, u \in Callers :
        ~(BlockedBy(t, u) /\ (u = t \/ BlockedBy(u, t)))

(* One thread is in send_to_node with the stdin lock held and about to     *)
(* lock the queue, while the other waits for the stdin lock.               *)
C25_Witness ==
    /\ pc["t1"] = "send_queue"
    /\ BlockedBy("t2", "t1")
    /\ Free("message_queue")

(* ================================ codec =============================== *)
(* C26: the line encode_message_for_stdin makes of a message is one JSON   *)
(* object ended by exactly one newline, and parse_stdin_message of that    *)
(* line succeeds with the id, the kind, the event name, the payload and    *)
(* the error of the message.                                               *)
C26_RoundTrip ==
    /\ (codec.stage \in {"line", "done"} /\ codec.own) =>
           codec.line.kind = "json" /\ codec.line.nl = 1
    /\ (codec.stage = "done" /\ codec.own) =>
           /\ codec.res.ok
           /\ codec.res.msg.id = codec.msg.id
           /\ codec.res.msg.msg_type = codec.msg.msg_type
           /\ codec.res.msg.event = codec.msg.event
           /\ codec.res.msg.payload = codec.msg.payload
           /\ codec.res.msg.error = codec.msg.error

(* An error response with no id and a null payload went through encode and *)
(* parse.                                                                  *)
C26_Witness ==
    /\ codec.stage = "done" /\ codec.own
    /\ codec.msg.msg_type = "response"
    /\ codec.msg.id = None
    /\ codec.msg.payload = 0
    /\ codec.msg.error = Some("boom")
    /\ codec.res.msg = codec.msg

(* C27: parse_stdin_message of a line that is empty or whitespace only,    *)
(* that is not JSON, or that is not a wire message returns an error; the   *)
(* call changes nothing of the bridge.                                     *)
C27_BadLineIsError ==
    /\ [](codec.stage = "done" /\ codec.line \in BadLines => ~codec.res.ok)
    /\ [][CodecParse => UNCHANGED <<bridgeVars, fired, written>>]_vars

(* The object whose payload member is missing was parsed.                  *)
C27_Witness ==
    /\ codec.stage = "done"
    /\ codec.line.kind = "json"
    /\ codec.line.obj.payload = JAbsent
    /\ ~codec.res.ok

(* ====================== registration before sending =================== *)
(* The request objects that have left request / request_with_timeout: on a *)
(* line handed to a channel or in the queue.                               *)
SentRequests ==
    {written[i].line.obj : i \in 1..Len(written)}
        \cup {Serialize(message_queue[i]) : i \in 1..Len(message_queue)}

SentRequestObjects == {o \in SentRequests : o.msg_type = JString("request")}

(* The calls made with id i: sent, or stored and about to be sent.         *)
CallsWithId(i) ==
    {o.payload.n : o \in {r \in SentRequestObjects : r.id.n = i}}
        \cup {cur[t].msg.payload :
                 t \in {u \in Callers : /\ pc[u] \in {"send", "send_queue"}
                                        /\ cur[u].msg.msg_type = "request"
                                        /\ cur[u].msg.id = Some(i)}}

(* A call with id i was completed, expired or cancelled.                   *)
Settled(i) ==
    \E c \in CallsWithId(i) : fired[c] # <<>> \/ c \in cancelled

C28_SendStep ==
    \A t \in Callers :
        /\ (SendQueue(t) /\ cur[t].msg.msg_type = "request") =>
               /\ ret' = Ret(t, "request", TRUE, Unwrap(cur[t].msg.id))
               /\ message_queue'[Len(message_queue')].id = Some(ret'.val)
        /\ (SendDirect(t) /\ cur[t].msg.msg_type = "request") =>
               /\ ret'.op = "request"
               /\ ret'.val = Unwrap(cur[t].msg.id)
               /\ written'[Len(written')].line.obj.id = JIdString(ret'.val)

(* C28: a request that has been written to a channel or queued was stored *)
(* in the table before, and unless a call with its id has been completed,  *)
(* expired or cancelled since, the table holds an entry under its id for   *)
(* a response to find; the request sent carries the id that is returned.   *)
C28_InsertBeforeSend ==
    /\ [](\A o \in SentRequestObjects :
             /\ o.payload.n \in registered
             /\ ~Settled(o.id.n) => MapContains(pending_requests, o.id.n))
    /\ [][C28_SendStep]_vars

(* The request has been queued and has returned its id, its entry is in    *)
(* the table, and the listener is about to read a line.                    *)
C28_Witness ==
    /\ SentRequestObjects # {}
    /\ \A o \in SentRequestObjects :
           /\ ~Settled(o.id.n)
           /\ MapContains(pending_requests, o.id.n)
           /\ ret = Ret("t1", "request", TRUE, o.id.n)
    /\ lpc = "read"

(* C29: a respawn whose spawn fails adds exactly 1 to the restart counter, *)
(* leaves the last-restart timestamp and the held handle (of the exited    *)
(* child) as they were, and returns nothing to any caller.                 *)
C29_FailedRespawn ==
    [][\A m \in Monitors :
         (MonitorSpawn(m) /\ nspawn' = nspawn) =>
             /\ restart_attempts' = restart_attempts + 1
             /\ UNCHANGED <<child, last_restart, ret, procs, child_lock, ownerVars>>
      ]_vars

(* The child that was started crashed and the one respawn tried failed to  *)
(* spawn: the counter is 1, no restart was stamped and the handle of the   *)
(* crashed child is still held.                                            *)
C29_Witness ==
    /\ mpc["m1"] = "done"
    /\ nspawn = 1
    /\ restart_attempts = 1
    /\ last_restart = None
    /\ HeldChildFailed

(* C30: once shutdown_gracefully has returned, no handle is held until the *)
(* owner starts the backend again.                                         *)
C30_StaysStopped ==
    [][(opc = "idle" /\ ret.op = "shutdown_gracefully" /\ ~is_running) =>
           (~is_running' /\ get_pid' = None)]_vars


(* C31: the restart counter never exceeds MAX_RESTART_ATTEMPTS in any      *)
(* reachable state, also when several monitor threads observe the same     *)
(* crashed child.                                                          *)
C31_CounterWithinMax == restart_attempts <= MAX_RESTART_ATTEMPTS

(* The callbacks whose entry was removed: by a matching response or a      *)
(* timeout (the callback was invoked) or by cancel_request.                *)
RemovedEntries == {c \in registered : fired[c] # <<>> \/ c \in cancelled}

(* C32: pending_request_count equals the number of request calls that      *)
(* registered an entry minus the number of entries removed by a matching   *)
(* response, a timeout or a cancel; no entry leaves the table otherwise.   *)
C32_CountIsRegisteredMinusRemoved ==
    pending_request_count = Cardinality(registered) - Cardinality(RemovedEntries)

(* ================= the buffer once a channel is attached =============== *)
(* The drain step of set_stdin (flush_message_queue with both locks held). *)
DrainStep ==
    \E t \in Callers :
        pc[t] = "flush_stdin" /\ pc'[t] = "idle" /\ ret'.op = "set_stdin"

NewWrites == (Len(written) + 1)..Len(written')

(* send_to_node of emit / request with a channel attached: one line, the   *)
(* caller's message, written directly; the buffer is not touched.          *)
C33_DirectStep ==
    \A t \in Callers :
        (IsSome(stdin) /\ pc[t] = "send" /\ pc'[t] # "send") =>
            /\ pc'[t] = "idle"
            /\ message_queue' = message_queue
            /\ Len(written') = Len(written) + 1
            /\ SubSeq(written', 1, Len(written)) = written
            /\ written'[Len(written')].via = "direct"
            /\ written'[Len(written')].ch = Unwrap(stdin)
            /\ written'[Len(written')].line.obj = Serialize(cur[t].msg)

(* Outside the drain step the buffer only grows at its tail and none of    *)
(* its messages is written.                                                *)
C33_BufferStep ==
    ~DrainStep =>
        /\ Len(message_queue') >= Len(message_queue)
        /\ SubSeq(message_queue', 1, Len(message_queue)) = message_queue
        /\ \A i \in NewWrites, j \in 1..Len(message_queue) :
               written'[i].line.obj # Serialize(message_queue[j])

(* C33: once a channel is attached, emit / request write directly and      *)
(* neither read nor modify the buffer; a message that is in the buffer     *)
(* (left by a failed drain or added by queue_message) is written only by   *)
(* the drain of a later set_stdin, so it stays there while later messages  *)
(* go out and for as long as set_stdin is not called again.                *)
C33_DirectBypassesBuffer == [][C33_DirectStep /\ C33_BufferStep]_vars

(* The drain failed on the message of call 1, which is still in the        *)
(* buffer; the emit of call 2 was written to the channel after it.         *)
C33_Witness ==
    /\ nattach = 1
    /\ \A t \in Callers : pc[t] = "idle"
    /\ message_queue = <<EventMsg("notify", 1)>>
    /\ Len(written) = 2
    /\ written[1].via = "flush" /\ ~written[1].ok
    /\ written[1].line.obj = Serialize(EventMsg("notify", 1))
    /\ written[2].via = "direct" /\ written[2].ok
    /\ written[2].line.obj = Serialize(EventMsg("notify", 2))

(* ============== callbacks that run with a lock held ==================== *)
TableMethods == {"request", "cancel_request", "pending_request_count"}

(* The listener / the timeout checker is inside a callback that has called *)
(* a method whose first lock its own thread holds.                         *)
ListenerBlocked ==
    \/ lpc = "callback" /\ lcall.op \in TableMethods
    \/ lpc = "handler" /\ lcall.op = "on"

SweeperBlocked == spc = "callback" /\ scall.op \in TableMethods

C34_LockHeld ==
    /\ lpc = "callback" => holder["pending_requests"] = Listener
    /\ spc = "callback" => holder["pending_requests"] = Sweeper
    /\ lpc = "handler" => holder["event_handlers"] = Listener

(* While a completion callback runs, no step reads or changes the table:   *)
(* no insert, no cancel, no count, and a call waiting for the table keeps  *)
(* waiting.                                                                *)
C34_ExclusiveStep ==
    (lpc = "callback" \/ spc = "callback") =>
        /\ pending_requests' = pending_requests
        /\ registered' = registered
        /\ cancelled' = cancelled
        /\ \A t \in Callers :
               ~RequestInsert(t) /\ ~CancelRequest(t) /\ ~PendingRequestCount(t)
        /\ lcall.op \in TableMethods => lcall' = lcall
        /\ scall.op \in TableMethods => scall' = scall

(* A blocked thread stays where it is with its lock held: the listener     *)
(* reads no further line, the timeout checker handles no further id.       *)
C34_BlockedStep ==
    /\ ListenerBlocked =>
           /\ lpc' = lpc /\ lcall' = lcall
           /\ nlines' = nlines /\ handled' = handled /\ hooked' = hooked
           /\ holder'[FirstLock(lcall.op)] = Listener
    /\ SweeperBlocked =>
           /\ spc' = spc /\ scall' = scall
           /\ timed_out' = timed_out /\ swept' = swept /\ wake' = wake
           /\ fired' = fired
           /\ holder'["pending_requests"] = Sweeper

(* C34: the listener and the timeout checker invoke a completion callback  *)
(* with the pending_requests lock held, and the listener invokes handlers  *)
(* with the event_handlers lock held; during a callback no other thread    *)
(* reads or modifies the table; a callback that calls request,             *)
(* cancel_request or pending_request_count of the same bridge, or a        *)
(* handler that calls on, never returns, and its loop goes no further.     *)
C34_CallbacksUnderLock ==
    [][C34_ExclusiveStep /\ C34_BlockedStep]_vars /\ []C34_LockHeld

(* Both loops are stopped: a handler called on, the callback of a timed    *)
(* out request called cancel_request; the caller waits for the table.      *)
C34_Witness ==
    /\ lpc = "handler" /\ lcall.op = "on"
    /\ spc = "callback" /\ scall.op = "cancel_request"
    /\ holder["event_handlers"] = Listener
    /\ holder["pending_requests"] = Sweeper
    /\ fired[1] = <<ErrResult("Request timed out after", 30)>>

====
